---- MODULE Spec2Model ----
(***************************************************************************)
(* A model of the tinyecs storage core (src/tinyecs.h): the entity sparse  *)
(* set, archetypes with chunked columnar storage, the archetype hash       *)
(* table and graph edges, the component operations and the query           *)
(* iterator.  Every C function is an operator of the same name that maps   *)
(* a world value to the world value the function leaves behind; the        *)
(* actions apply these operators to the variable `world`.                  *)
(*                                                                         *)
(* Representation.  Pointers to archetypes are indices into the heap       *)
(* `world.archetypes` (0 is the null pointer).  A pointer to an entity     *)
(* record is an index into `entities.dense` (NULL is -1).  C arrays are    *)
(* functions over 0..n-1; growable vectors are sequences (element i of the *)
(* C vector is element i+1 of the sequence).  A 64-bit hash is a tuple of  *)
(* eight bytes, least significant first.  An entity handle is the pair     *)
(* <<index, generation>>, so TECS_ENTITY_NULL (the integer 0) is <<0, 0>>. *)
(* A component value of `size` bytes is a small integer; memory that       *)
(* malloc returned and nobody wrote is the value Uninit.                   *)
(*                                                                         *)
(* Freed memory.  tecs_archetype_free leaves the archetype in the heap     *)
(* with `freed` set.  What a later read or write of such an archetype does *)
(* is not defined by the language, so the model does not pick an outcome:  *)
(* a function that dereferences a freed archetype sets `world.fault`, and  *)
(* no behaviour continues from a faulted world.                            *)
(*                                                                         *)
(* Calls that do not return.  A function whose loop cannot end sets        *)
(* `world.hang`; no behaviour continues from such a world either.          *)
(***************************************************************************)
EXTENDS Integers, Sequences, FiniteSets, TLC

(***************************************************************************)
(* Bounds of the model.                                                    *)
(***************************************************************************)
MaxIndex == 3      \* entity indices are 0 .. MaxIndex-1
MaxGen == 1        \* a recycled index is reused while its generation < MaxGen
MaxSteps == 5      \* a behaviour makes at most MaxSteps calls that change the world
MaxQuerySteps == 4 \* the same bound in the specification with a query
NumValues == 2     \* component values are 1 .. NumValues
MaxHierarchySteps == 6 \* the bound on calls in the specification with a hierarchy
MaxSystems == 2    \* the client declares at most MaxSystems systems
MaxConstraints == 1 \* tbevy_system_after / _before calls per system
MaxFrames == 2     \* the client calls tbevy_app_update at most MaxFrames times
MaxCommandSteps == 4   \* spawns and queued commands in the specification with Commands
MaxCommandSystems == 1 \* systems declared in the specification with Commands
MaxCommandFrames == 2  \* updates in the specification with Commands
MaxEventSystems == 1   \* systems in the specification with events
MaxEventFrames == 3    \* updates in the specification with events
MaxEvents == 2         \* events sent in the specification with events
MaxStateSystems == 2   \* systems in the specification with states
MaxStateFrames == 2    \* updates in the specification with states
MaxObservers == 2      \* observers added in the specification with observers
MaxObserverSteps == 3  \* spawns and queued inserts in that specification
MaxObserverFrames == 2 \* updates in that specification
MaxTriggers == 1       \* calls of tbevy_app_trigger by the client
MaxCustomStages == 1   \* custom stages added in the specification with stages
MaxStageSystems == 2   \* systems in that specification
MaxStageFrames == 2    \* updates in that specification
MaxStartupSystems == 2 \* systems in the specification with start-up calls
MaxStartupCalls == 3   \* calls of tbevy_app_run_startup and tbevy_app_update in it
MaxStaleSteps == 4     \* calls in the specification with stale handles
MaxClearSteps == 5     \* calls in the specification with tecs_world_clear
MaxEdgeTags == 17      \* tag components of the client in the specification with edges
MaxTableSteps == 6     \* calls in the specification with colliding table slots
MaxConditionSystems == 2 \* systems declared in the specification with run conditions
MaxConditions == 2     \* run conditions attached to a system
MaxConditionFrames == 2 \* updates in the specification with run conditions
MaxConditionSteps == 2 \* spawns and queued inserts in the specification with run conditions
MaxWithIdSteps == 4    \* calls in the specification with tecs_entity_new_with_id
MaxChangedSteps == 4   \* calls on the world in the specification with a Changed query
MaxTickSteps == 6      \* calls in the specification with change ticks

(***************************************************************************)
(* Program constants.                                                      *)
(***************************************************************************)
TECS_CHUNK_SIZE == 2             \* overridable (#ifndef); a power of two
TECS_INITIAL_ARCHETYPES == 32
NULL == -1                       \* a null record / index "not found"
NULL_ARCH == 0                   \* a null tecs_archetype_t*
Uninit == -2                     \* contents of unwritten malloc memory

TECS_ENTITY_MAKE(idx, gen) == <<idx, gen>>
TECS_ENTITY_INDEX(e) == e[1]
TECS_ENTITY_GENERATION(e) == e[2]
TECS_ENTITY_NULL == <<0, 0>>

(***************************************************************************)
(* The component registry after tecs_world_new and the registration of the *)
(* user components: ids are handed out from 1; the world registers Parent  *)
(* and Children itself.  Position uses the default (native) provider,      *)
(* Health a custom provider that offers no swap_data, Enemy is a tag.      *)
(***************************************************************************)
component_registry ==
    << [id |-> 1, size |-> 8,  provider |-> "native", has_swap |-> TRUE],
       [id |-> 2, size |-> 16, provider |-> "native", has_swap |-> TRUE],
       [id |-> 3, size |-> 8,  provider |-> "native", has_swap |-> TRUE],
       [id |-> 4, size |-> 4,  provider |-> "custom", has_swap |-> FALSE],
       [id |-> 5, size |-> 0,  provider |-> "native", has_swap |-> TRUE] >>

parent_component_id == 1
children_component_id == 2
PositionId == 3
HealthId == 4
EnemyId == 5

UserComponents == {PositionId, HealthId, EnemyId}
DataComponents == {PositionId, HealthId}
Values == 1 .. NumValues

SizeOf(cid) == component_registry[cid].size

(***************************************************************************)
(* 64-bit arithmetic on eight-byte tuples, and FNV-1a.                     *)
(***************************************************************************)
FNV_OFFSET == <<37, 35, 34, 132, 228, 156, 242, 203>>   \* 14695981039346656037
FNV_PRIME == <<179, 1, 0, 0, 0, 1, 0, 0>>               \* 1099511628211

RECURSIVE XorBits(_, _)
XorBits(a, b) ==
    IF a = 0 /\ b = 0 THEN 0
    ELSE (((a % 2) + (b % 2)) % 2) + (2 * XorBits(a \div 2, b \div 2))

RECURSIVE ToLimbs(_, _)
ToLimbs(n, k) == IF k = 0 THEN << >> ELSE <<n % 256>> \o ToLimbs(n \div 256, k - 1)

Xor64(h, n) == LET l == ToLimbs(n, 8) IN [i \in 1..8 |-> XorBits(h[i], l[i])]

RECURSIVE SumProd(_, _, _, _)
SumProd(a, b, k, i) ==
    IF i > k THEN 0 ELSE (a[i] * b[k + 1 - i]) + SumProd(a, b, k, i + 1)

RECURSIVE MulLimbs(_, _, _, _)
MulLimbs(a, b, k, carry) ==
    IF k > 8 THEN << >>
    ELSE LET s == carry + SumProd(a, b, k, 1)
         IN  <<s % 256>> \o MulLimbs(a, b, k + 1, s \div 256)

Mul64(a, b) == MulLimbs(a, b, 1, 0)

RECURSIVE ModLimbs(_, _, _)
ModLimbs(h, m, i) ==
    IF i = 0 THEN 0 ELSE ((ModLimbs(h, m, i - 1) * 256) + h[9 - i]) % m

\* hash % m for a 64-bit hash
Mod64(h, m) == ModLimbs(h, m, 8)

RECURSIVE InsertKey(_, _)
InsertKey(sorted, key) ==
    IF sorted = << >> THEN <<key>>
    ELSE IF sorted[Len(sorted)] > key
         THEN InsertKey(SubSeq(sorted, 1, Len(sorted) - 1), key) \o <<sorted[Len(sorted)]>>
         ELSE sorted \o <<key>>

RECURSIVE InsertionSort(_)
InsertionSort(ids) ==
    IF ids = << >> THEN << >>
    ELSE InsertKey(InsertionSort(SubSeq(ids, 1, Len(ids) - 1)), ids[Len(ids)])

RECURSIVE FnvFold(_, _)
FnvFold(hash, sorted) ==
    IF sorted = << >> THEN hash
    ELSE FnvFold(Mul64(Xor64(hash, sorted[1]), FNV_PRIME), Tail(sorted))

tecs_hash_component_set(ids) == FnvFold(FNV_OFFSET, InsertionSort(ids))

(***************************************************************************)
(* Entity sparse set.                                                      *)
(***************************************************************************)
ComponentIds == 1 .. Len(component_registry)
\* an id that tecs_register_component has not handed out
UnregisteredId == Len(component_registry) + 1
\* the keys the edge maps of an archetype are asked for: a map answers NULL
\* for a key that was never set
EdgeKeys == ComponentIds \cup {UnregisteredId}
Indices == 0 .. (MaxIndex - 1)
Rows == 0 .. (TECS_CHUNK_SIZE - 1)

\* a dense slot that malloc returned and nobody wrote
UninitRecord == [archetype |-> NULL_ARCH, chunk_index |-> NULL, row |-> NULL]
\* an entities[] slot of a chunk that nobody wrote
UninitEntity == <<NULL, NULL>>

tecs_sparse_set_init ==
    [ sparse |-> [i \in Indices |-> 0],
      dense |-> [i \in Indices |-> UninitRecord],
      dense_count |-> 0,
      recycled |-> << >>,
      generations |-> [i \in Indices |-> 0] ]

\* the result: the set afterwards and the handle returned
tecs_sparse_set_create(set) ==
    LET reuse == Len(set.recycled) > 0
        index == IF reuse THEN set.recycled[Len(set.recycled)] ELSE set.dense_count
        generation == IF reuse THEN set.generations[index] + 1 ELSE 0
    IN  [ set |-> [ sparse |-> [set.sparse EXCEPT ![index] = set.dense_count],
                    dense |-> [set.dense EXCEPT ![set.dense_count] =
                                  [archetype |-> NULL_ARCH, chunk_index |-> NULL, row |-> NULL]],
                    dense_count |-> set.dense_count + 1,
                    recycled |-> IF reuse THEN SubSeq(set.recycled, 1, Len(set.recycled) - 1)
                                 ELSE set.recycled,
                    generations |-> IF reuse THEN [set.generations EXCEPT ![index] = generation]
                                    ELSE set.generations ],
          entity |-> TECS_ENTITY_MAKE(index, generation) ]

\* the index into dense of the record, NULL for "no record"
tecs_sparse_set_get(set, entity) ==
    LET index == TECS_ENTITY_INDEX(entity)
        generation == TECS_ENTITY_GENERATION(entity)
    IN  IF index \notin Indices THEN NULL
        ELSE IF set.generations[index] # generation THEN NULL
        ELSE IF set.sparse[index] >= set.dense_count THEN NULL
        ELSE set.sparse[index]

tecs_sparse_set_remove(set, entity) ==
    LET index == TECS_ENTITY_INDEX(entity)
        dense_index == set.sparse[index]
    IN  IF index \notin Indices THEN set
        ELSE IF dense_index >= set.dense_count THEN set
        ELSE [ set EXCEPT
                 !.dense = IF dense_index < set.dense_count - 1
                           THEN [@ EXCEPT ![dense_index] = set.dense[set.dense_count - 1]]
                           ELSE @,
                 !.dense_count = @ - 1,
                 !.recycled = Append(@, index) ]

(***************************************************************************)
(* Archetypes and chunks.                                                  *)
(***************************************************************************)
RECURSIVE InsertComponent(_, _)
InsertComponent(sorted, c) ==
    IF sorted = << >> THEN <<c>>
    ELSE IF sorted[Len(sorted)].id > c.id
         THEN InsertComponent(SubSeq(sorted, 1, Len(sorted) - 1), c) \o <<sorted[Len(sorted)]>>
         ELSE sorted \o <<c>>

\* qsort(components, tecs_compare_component_info)
RECURSIVE SortComponents(_)
SortComponents(cs) ==
    IF cs = << >> THEN << >>
    ELSE InsertComponent(SortComponents(SubSeq(cs, 1, Len(cs) - 1)), cs[Len(cs)])

IdsOf(cs) == [i \in 1 .. Len(cs) |-> cs[i].id]

IsData(c) == c.size > 0

\* components: a sequence of [id, size]
\* Edge hash map: open addressing over a fixed number of slots
EmptyEdge == [key |-> 0, value |-> NULL_ARCH, occupied |-> FALSE]

tecs_edge_map_init(capacity) ==
    [capacity |-> capacity, entries |-> [i \in 0 .. (capacity - 1) |-> EmptyEdge]]

\* the numbers of the probes, counted from the slot component_id % capacity
\* on, at which the loops of tecs_edge_map_get and tecs_edge_map_set stop: a
\* slot that is not occupied or holds the key
EdgeProbeStops(map, component_id) ==
    { k \in 0 .. (map.capacity - 1) :
        LET entry == map.entries[((component_id % map.capacity) + k) % map.capacity]
        IN  ~entry.occupied \/ entry.key = component_id }

FirstProbe(stops) == CHOOSE k \in stops : \A j \in stops : k <= j

tecs_edge_map_get(map, component_id) ==
    IF map.capacity = 0 THEN NULL_ARCH
    ELSE LET stops == EdgeProbeStops(map, component_id)
         IN  IF stops = {} THEN NULL_ARCH
             ELSE LET entry == map.entries[((component_id % map.capacity)
                                              + FirstProbe(stops)) % map.capacity]
                  IN  IF entry.occupied THEN entry.value ELSE NULL_ARCH

\* the result: the map afterwards and whether the call returns; the while
\* loop changes nothing, so it runs for ever once every slot is occupied by
\* another key
tecs_edge_map_set(map, component_id, target) ==
    IF map.capacity = 0 THEN [map |-> map, returns |-> TRUE]
    ELSE LET stops == EdgeProbeStops(map, component_id)
         IN  IF stops = {} THEN [map |-> map, returns |-> FALSE]
             ELSE [ map |-> [ map EXCEPT
                                !.entries[((component_id % map.capacity)
                                             + FirstProbe(stops)) % map.capacity] =
                                    [key |-> component_id, value |-> target,
                                     occupied |-> TRUE] ],
                    returns |-> TRUE ]

tecs_archetype_new(components) ==
    LET sorted == SortComponents(components)
    IN  [ id |-> tecs_hash_component_set(IdsOf(components)),
          components |-> sorted,
          data_components |-> SelectSeq(sorted, IsData),
          chunks |-> << >>,
          entity_count |-> 0,
          add_edge_map |-> tecs_edge_map_init(16),
          remove_edge_map |-> tecs_edge_map_init(16),
          freed |-> FALSE ]

\* TECS_FREE(arch) and of everything arch owns
tecs_archetype_free(w, arch) == [w EXCEPT !.archetypes[arch].freed = TRUE]

\* arch-> : the world remembers a dereference of a freed archetype
Deref(w, arch) == [w EXCEPT !.fault = @ \/ w.archetypes[arch].freed]

\* index of the first element of seq with the id, counted from 0; NULL if none
RECURSIVE IndexOfId(_, _, _)
IndexOfId(cs, cid, i) ==
    IF i > Len(cs) THEN NULL
    ELSE IF cs[i].id = cid THEN i - 1
    ELSE IndexOfId(cs, cid, i + 1)

\* tecs_component_map_get on arch->component_map
tecs_archetype_find_component(arch, cid) == IndexOfId(arch.components, cid, 1)

tecs_archetype_has_component(arch, cid) == tecs_archetype_find_component(arch, cid) >= 0

\* tecs_component_map_get on arch->data_component_map: the column of cid
DataColumnOf(arch, cid) == IndexOfId(arch.data_components, cid, 1)

tecs_chunk_new(data_components) ==
    [ entities |-> [r \in Rows |-> UninitEntity],
      count |-> 0,
      columns |-> [i \in 1 .. Len(data_components) |->
                     [ data |-> [r \in Rows |-> Uninit],
                       changed_ticks |-> [r \in Rows |-> 0],
                       added_ticks |-> [r \in Rows |-> 0] ]] ]

\* the storage provider of a column: the one its component was registered
\* with, the default one (which offers swap_data) for an id not in the registry
ProviderHasSwap(cid) ==
    IF cid \in ComponentIds THEN component_registry[cid].has_swap ELSE TRUE

\* the first chunk (from 1) with count < TECS_CHUNK_SIZE, 0 if there is none
RECURSIVE FirstFreeChunk(_, _)
FirstFreeChunk(chunks, i) ==
    IF i > Len(chunks) THEN 0
    ELSE IF chunks[i].count < TECS_CHUNK_SIZE THEN i
    ELSE FirstFreeChunk(chunks, i + 1)

\* arch: pointer; record: index into dense.  The world afterwards.
tecs_archetype_add_entity(w, arch, entity, record, tick) ==
    LET A == w.archetypes[arch]
        found == FirstFreeChunk(A.chunks, 1)
        chunks1 == IF found = 0 THEN Append(A.chunks, tecs_chunk_new(A.data_components))
                   ELSE A.chunks
        ci == IF found = 0 THEN Len(A.chunks) + 1 ELSE found
        chunk == chunks1[ci]
        row == chunk.count
        chunk2 == [ entities |-> [chunk.entities EXCEPT ![row] = entity],
                    count |-> chunk.count + 1,
                    columns |-> [i \in 1 .. Len(A.data_components) |->
                        [ chunk.columns[i] EXCEPT !.added_ticks[row] = tick,
                                                  !.changed_ticks[row] = tick ]] ]
        A2 == [A EXCEPT !.chunks = [chunks1 EXCEPT ![ci] = chunk2],
                        !.entity_count = @ + 1]
    IN  IF record = NULL
        \* record-> is a write through a null pointer: the world remembers it
        THEN [ Deref(w, arch) EXCEPT !.archetypes[arch] = A2, !.fault = TRUE ]
        ELSE [ Deref(w, arch) EXCEPT
                   !.archetypes[arch] = A2,
                   !.entities.dense[record] =
                       [ archetype |-> arch,
                         chunk_index |-> ci - 1,
                         row |-> A2.entity_count - 1 ] ]   \* global row index

tecs_archetype_remove_entity(w, arch, chunk_idx, row) ==
    LET A == w.archetypes[arch]
        chunk == A.chunks[chunk_idx + 1]
        last_row == chunk.count - 1
        SwapCol(i) ==
            LET col == chunk.columns[i]
                cid == A.data_components[i].id
            IN  [ col EXCEPT
                    !.data = IF ProviderHasSwap(cid)
                             THEN [@ EXCEPT ![row] = col.data[last_row],
                                            ![last_row] = col.data[row]]
                             ELSE [@ EXCEPT ![row] = col.data[last_row]],
                    !.changed_ticks[row] = col.changed_ticks[last_row],
                    !.added_ticks[row] = col.added_ticks[last_row] ]
        chunk2 == IF row # last_row
                  THEN [ entities |-> [chunk.entities EXCEPT ![row] = chunk.entities[last_row]],
                         count |-> chunk.count - 1,
                         columns |-> [i \in 1 .. Len(A.data_components) |-> SwapCol(i)] ]
                  ELSE [chunk EXCEPT !.count = @ - 1]
    IN  [ Deref(w, arch) EXCEPT
                   !.archetypes[arch].chunks[chunk_idx + 1] = chunk2,
                   !.archetypes[arch].entity_count = @ - 1 ]

tecs_archetype_add_edge(w, arch, cid, target, is_add) ==
    LET A == w.archetypes[arch]
        r == tecs_edge_map_set(IF is_add THEN A.add_edge_map ELSE A.remove_edge_map,
                               cid, target)
    IN  IF ~r.returns THEN [w EXCEPT !.hang = TRUE]
        ELSE IF is_add THEN [w EXCEPT !.archetypes[arch].add_edge_map = r.map]
        ELSE [w EXCEPT !.archetypes[arch].remove_edge_map = r.map]

tecs_archetype_find_edge(A, cid, is_add) ==
    tecs_edge_map_get(IF is_add THEN A.add_edge_map ELSE A.remove_edge_map, cid)

(***************************************************************************)
(* World: construction and the archetype hash table.                       *)
(***************************************************************************)
Zero64 == <<0, 0, 0, 0, 0, 0, 0, 0>>
EmptySlot == [hash |-> Zero64, archetype |-> NULL_ARCH]

tecs_world_new ==
    LET root == tecs_archetype_new(<< >>)
        index == Mod64(root.id, TECS_INITIAL_ARCHETYPES)
    IN  [ entities |-> tecs_sparse_set_init,
          archetypes |-> <<root>>,
          root_archetype |-> 1,
          archetype_table |-> [i \in 0 .. (TECS_INITIAL_ARCHETYPES - 1) |->
                                 IF i = index THEN [hash |-> root.id, archetype |-> 1]
                                 ELSE EmptySlot],
          archetype_table_size |-> 1,
          archetype_table_capacity |-> TECS_INITIAL_ARCHETYPES,
          tick |-> 0,
          structural_change_version |-> 0,
          entity_children |-> << >>,
          in_deferred |-> FALSE,
          fault |-> FALSE,
          hang |-> FALSE ]

tecs_world_update(w) == [w EXCEPT !.tick = @ + 1]

tecs_world_tick(w) == w.tick

tecs_world_entity_count(w) == w.entities.dense_count

RECURSIVE ProbeFind(_, _, _, _)
ProbeFind(w, hash, index, steps) ==
    IF steps = w.archetype_table_capacity THEN NULL_ARCH
    ELSE IF w.archetype_table[index].archetype = NULL_ARCH THEN NULL_ARCH
    ELSE IF w.archetype_table[index].hash = hash THEN w.archetype_table[index].archetype
    ELSE ProbeFind(w, hash, (index + 1) % w.archetype_table_capacity, steps + 1)

tecs_world_find_archetype(w, hash) ==
    IF w.archetype_table_capacity = 0 THEN NULL_ARCH
    ELSE ProbeFind(w, hash, Mod64(hash, w.archetype_table_capacity), 0)

\* the first slot from index on (wrapping) that holds no archetype
RECURSIVE ProbeFree(_, _, _)
ProbeFree(table, capacity, index) ==
    IF table[index].archetype = NULL_ARCH THEN index
    ELSE ProbeFree(table, capacity, (index + 1) % capacity)

TableInsert(table, capacity, entry) ==
    [table EXCEPT ![ProbeFree(table, capacity, Mod64(entry.hash, capacity))] = entry]

\* reinsertion of old_table[i .. old_capacity-1] into table
RECURSIVE Rehash(_, _, _, _, _)
Rehash(old_table, old_capacity, i, table, capacity) ==
    IF i >= old_capacity THEN table
    ELSE IF old_table[i].archetype # NULL_ARCH
         THEN Rehash(old_table, old_capacity, i + 1,
                     TableInsert(table, capacity, old_table[i]), capacity)
         ELSE Rehash(old_table, old_capacity, i + 1, table, capacity)

\* arch: pointer to an archetype of the heap that is not in the table
tecs_world_add_archetype(w, arch) ==
    LET grow == w.archetype_table_size >= (w.archetype_table_capacity * 7) \div 10
        capacity == IF grow THEN w.archetype_table_capacity * 2 ELSE w.archetype_table_capacity
        table == IF grow
                 THEN Rehash(w.archetype_table, w.archetype_table_capacity, 0,
                             [i \in 0 .. (capacity - 1) |-> EmptySlot], capacity)
                 ELSE w.archetype_table
    IN  [ w EXCEPT
            !.archetype_table =
                TableInsert(table, capacity, [hash |-> w.archetypes[arch].id, archetype |-> arch]),
            !.archetype_table_capacity = capacity,
            !.archetype_table_size = @ + 1,
            !.structural_change_version = @ + 1 ]

\* the loop of tecs_remove_empty_archetypes from slot i on; the result: the
\* world afterwards and the number of archetypes removed
RECURSIVE RemoveEmptyFrom(_, _, _)
RemoveEmptyFrom(w, i, removed) ==
    IF i >= w.archetype_table_capacity THEN [w |-> w, removed |-> removed]
    ELSE LET arch == w.archetype_table[i].archetype
         IN  IF /\ arch # NULL_ARCH
                /\ w.archetypes[arch].entity_count = 0
                /\ arch # w.root_archetype
             THEN RemoveEmptyFrom(
                      [ tecs_archetype_free(w, arch) EXCEPT
                          !.archetype_table[i] = EmptySlot,
                          !.archetype_table_size = @ - 1 ],
                      i + 1, removed + 1)
             ELSE RemoveEmptyFrom(w, i + 1, removed)

tecs_remove_empty_archetypes(w) ==
    LET r == RemoveEmptyFrom(w, 0, 0)
    IN  IF r.removed > 0 THEN [r.w EXCEPT !.structural_change_version = @ + 1]
        ELSE r.w

\* the loop of tecs_world_clear over the slots of the table from slot i on
RECURSIVE ClearFrom(_, _)
ClearFrom(w, i) ==
    IF i >= w.archetype_table_capacity THEN w
    ELSE LET arch == w.archetype_table[i].archetype
         IN  IF arch # NULL_ARCH /\ arch # w.root_archetype
             THEN ClearFrom([ tecs_archetype_free(w, arch) EXCEPT
                                !.archetype_table[i] = EmptySlot ],
                            i + 1)
             ELSE ClearFrom(w, i + 1)

\* the generations and the sparse array of the entity table stay as they are
tecs_world_clear(w) ==
    LET w1 == ClearFrom([ w EXCEPT !.entities.dense_count = 0,
                                   !.entities.recycled = << >>,
                                   !.tick = 0,
                                   !.structural_change_version = @ + 1 ],
                        0)
        root == w1.archetypes[w1.root_archetype]
        EmptyChunks[k \in 1 .. Len(root.chunks) + 1] ==
            IF k > Len(root.chunks) THEN << >>
            ELSE << [root.chunks[k] EXCEPT !.count = 0] >> \o EmptyChunks[k + 1]
    IN  [ Deref(w1, w1.root_archetype) EXCEPT
            !.archetype_table_size = 1,
            !.archetypes[w1.root_archetype].chunks = EmptyChunks[1],
            !.archetypes[w1.root_archetype].entity_count = 0 ]

(***************************************************************************)
(* Entity operations.                                                      *)
(***************************************************************************)
\* the result: the world afterwards and the handle returned
tecs_entity_new(w) ==
    LET r == tecs_sparse_set_create(w.entities)
        w1 == [w EXCEPT !.entities = r.set]
        record == tecs_sparse_set_get(w1.entities, r.entity)
    IN  [ w |-> tecs_archetype_add_entity(w1, w1.root_archetype, r.entity, record, w1.tick),
          entity |-> r.entity ]

tecs_entity_delete(w, entity) ==
    LET record == tecs_sparse_set_get(w.entities, entity)
    IN  IF record = NULL THEN w
        ELSE IF w.entities.dense[record].archetype = NULL_ARCH THEN w
        ELSE LET rec == w.entities.dense[record]
                 w1 == tecs_archetype_remove_entity(w, rec.archetype, rec.chunk_index,
                                                    rec.row % TECS_CHUNK_SIZE)
             IN  [w1 EXCEPT !.entities = tecs_sparse_set_remove(w1.entities, entity)]

tecs_entity_exists(w, entity) == tecs_sparse_set_get(w.entities, entity) # NULL

\* the parameter id is unused
tecs_entity_new_with_id(w, id) == tecs_entity_new(w)

(***************************************************************************)
(* Component operations.                                                   *)
(***************************************************************************)
\* the result: the world afterwards and the archetype pointer returned
tecs_world_get_or_create_archetype_with_component(w, current, cid, size) ==
    LET cached == tecs_archetype_find_edge(w.archetypes[current], cid, TRUE)
        new_components == Append(w.archetypes[current].components, [id |-> cid, size |-> size])
        hash == tecs_hash_component_set(IdsOf(new_components))
        found == tecs_world_find_archetype(w, hash)
        created == Len(w.archetypes) + 1
        target == IF found = NULL_ARCH THEN created ELSE found
        w1 == IF found = NULL_ARCH
              THEN tecs_world_add_archetype(
                       [w EXCEPT !.archetypes = Append(@, tecs_archetype_new(new_components))],
                       created)
              ELSE w
        w2 == tecs_archetype_add_edge(w1, current, cid, target, TRUE)
    IN  IF cached # NULL_ARCH THEN [w |-> w, target |-> cached]
        ELSE [w |-> tecs_archetype_add_edge(w2, target, cid, current, FALSE), target |-> target]

tecs_world_get_or_create_archetype_without_component(w, current, cid) ==
    LET cached == tecs_archetype_find_edge(w.archetypes[current], cid, FALSE)
        cur == w.archetypes[current]
        new_count == Len(cur.components) - 1
        new_components == SelectSeq(cur.components, LAMBDA c : c.id # cid)
        hash == IF new_count > 0 THEN tecs_hash_component_set(IdsOf(new_components)) ELSE Zero64
        found == IF new_count = 0 THEN w.root_archetype ELSE tecs_world_find_archetype(w, hash)
        created == Len(w.archetypes) + 1
        target == IF found = NULL_ARCH THEN created ELSE found
        w1 == IF found = NULL_ARCH
              THEN tecs_world_add_archetype(
                       [w EXCEPT !.archetypes = Append(@, tecs_archetype_new(new_components))],
                       created)
              ELSE w
        w2 == tecs_archetype_add_edge(w1, current, cid, target, FALSE)
    IN  IF cached # NULL_ARCH THEN [w |-> w, target |-> cached]
        ELSE IF new_count < 0 THEN [w |-> w, target |-> current]
        ELSE IF Len(new_components) # new_count THEN [w |-> w, target |-> current]
        ELSE [w |-> tecs_archetype_add_edge(w2, target, cid, current, TRUE), target |-> target]

\* the element of a set of one element; { F(x) : x \in {e} } hands the value
\* of e to F
Only(S) == CHOOSE x \in S : TRUE

\* Chunks are named by their archetype and index.  The world afterwards.
tecs_copy_component_data(w, src_arch, src_chunk, src_row, dst_arch, dst_chunk, dst_row) ==
    LET S == w.archetypes[src_arch]
        D == w.archetypes[dst_arch]
        \* the column of S that feeds column j of D, 0 if none
        SrcOf(j) == IndexOfId(S.data_components, D.data_components[j].id, 1) + 1
        scols == S.chunks[src_chunk + 1].columns
        dcols == D.chunks[dst_chunk + 1].columns
        CopyCol(j) ==
            IF SrcOf(j) = 0 THEN dcols[j]
            ELSE [ dcols[j] EXCEPT
                     !.data[dst_row] = scols[SrcOf(j)].data[src_row],
                     !.changed_ticks[dst_row] = scols[SrcOf(j)].changed_ticks[src_row],
                     !.added_ticks[dst_row] = scols[SrcOf(j)].added_ticks[src_row] ]
        \* the columns of the destination from column j on
        CopyCols[j \in 1 .. Len(D.data_components) + 1] ==
            IF j > Len(D.data_components) THEN << >>
            ELSE << CopyCol(j) >> \o CopyCols[j + 1]
    IN  [ w EXCEPT !.archetypes[dst_arch].chunks[dst_chunk + 1].columns = CopyCols[1] ]

tecs_set(w, entity, cid, data, size) ==
    LET record == tecs_sparse_set_get(w.entities, entity)
        rec == w.entities.dense[record]
        current_arch == rec.archetype
        comp_idx == tecs_archetype_find_component(w.archetypes[current_arch], cid)
        column_idx == DataColumnOf(w.archetypes[current_arch], cid)
        row == rec.row % TECS_CHUNK_SIZE
        old_chunk_idx == rec.chunk_index
        old_row == rec.row % TECS_CHUNK_SIZE
        \* the steps of the move to new_arch, each on the world the previous
        \* one left
        AddEntity(r) ==
            LET entity_id == r.w.archetypes[current_arch].chunks[old_chunk_idx + 1]
                                .entities[old_row]
            IN  tecs_archetype_add_entity(r.w, r.target, entity_id, record, r.w.tick)
        CopyData(w2, new_arch) ==
            tecs_copy_component_data(w2, current_arch, old_chunk_idx, old_row,
                                     new_arch, w2.entities.dense[record].chunk_index,
                                     w2.entities.dense[record].row % TECS_CHUNK_SIZE)
        WriteAndLeave(w3, new_arch) ==
            LET new_chunk_idx == w3.entities.dense[record].chunk_index
                new_row == w3.entities.dense[record].row % TECS_CHUNK_SIZE
                new_column_idx == DataColumnOf(w3.archetypes[new_arch], cid)
                w4 == IF new_column_idx >= 0
                      THEN [ w3 EXCEPT !.archetypes[new_arch].chunks[new_chunk_idx + 1]
                                         .columns[new_column_idx + 1] =
                                 [ @ EXCEPT !.data[new_row] = data,
                                            !.changed_ticks[new_row] = w3.tick,
                                            !.added_ticks[new_row] = w3.tick ] ]
                      ELSE w3
            IN  tecs_archetype_remove_entity(w4, current_arch, old_chunk_idx, old_row)
        Move(r) ==
            IF r.target = current_arch THEN r.w
            ELSE Only({ WriteAndLeave(w3, r.target) :
                          w3 \in { CopyData(w2, r.target) : w2 \in {AddEntity(r)} } })
    IN  IF record = NULL THEN w
        ELSE IF comp_idx >= 0
             THEN IF column_idx < 0 THEN w
                  ELSE [ w EXCEPT !.archetypes[current_arch].chunks[rec.chunk_index + 1]
                                    .columns[column_idx + 1] =
                             [ @ EXCEPT !.data[row] = data,
                                        !.changed_ticks[row] = w.tick ] ]
        ELSE Only({ Move(r) :
                      r \in {tecs_world_get_or_create_archetype_with_component(
                                 w, current_arch, cid, size)} })

\* the bytes the returned pointer points to; NULL for a null pointer
tecs_get(w, entity, cid) ==
    LET record == tecs_sparse_set_get(w.entities, entity)
        rec == w.entities.dense[record]
        arch == w.archetypes[rec.archetype]
        column_idx == DataColumnOf(arch, cid)
    IN  IF record = NULL THEN NULL
        ELSE IF rec.archetype = NULL_ARCH THEN NULL
        ELSE IF column_idx < 0 THEN NULL
        ELSE arch.chunks[rec.chunk_index + 1].columns[column_idx + 1]
                 .data[rec.row % TECS_CHUNK_SIZE]

tecs_has(w, entity, cid) ==
    LET record == tecs_sparse_set_get(w.entities, entity)
        rec == w.entities.dense[record]
    IN  IF record = NULL THEN FALSE
        ELSE IF rec.archetype = NULL_ARCH THEN FALSE
        ELSE tecs_archetype_has_component(w.archetypes[rec.archetype], cid)

tecs_unset(w, entity, cid) ==
    LET record == tecs_sparse_set_get(w.entities, entity)
        rec == w.entities.dense[record]
        current_arch == rec.archetype
        old_chunk_idx == rec.chunk_index
        old_row == rec.row % TECS_CHUNK_SIZE
        \* the steps of the move to new_arch, each on the world the previous
        \* one left
        AddEntity(r) ==
            LET entity_id == r.w.archetypes[current_arch].chunks[old_chunk_idx + 1]
                                .entities[old_row]
            IN  tecs_archetype_add_entity(r.w, r.target, entity_id, record, r.w.tick)
        CopyData(w2, new_arch) ==
            tecs_copy_component_data(w2, current_arch, old_chunk_idx, old_row,
                                     new_arch, w2.entities.dense[record].chunk_index,
                                     w2.entities.dense[record].row % TECS_CHUNK_SIZE)
        Move(r) ==
            IF r.target = current_arch THEN r.w
            ELSE Only({ tecs_archetype_remove_entity(w3, current_arch, old_chunk_idx, old_row) :
                          w3 \in { CopyData(w2, r.target) : w2 \in {AddEntity(r)} } })
    IN  IF record = NULL THEN w
        ELSE IF rec.archetype = NULL_ARCH THEN w
        ELSE IF ~tecs_archetype_has_component(w.archetypes[current_arch], cid) THEN w
        ELSE Only({ Move(r) :
                      r \in {tecs_world_get_or_create_archetype_without_component(
                                 w, current_arch, cid)} })

tecs_add_tag(w, entity, tag_id) == tecs_set(w, entity, tag_id, NULL, 0)

tecs_mark_changed(w, entity, cid) ==
    LET record == tecs_sparse_set_get(w.entities, entity)
        rec == w.entities.dense[record]
        column_idx == DataColumnOf(w.archetypes[rec.archetype], cid)
    IN  IF record = NULL THEN w
        ELSE IF rec.archetype = NULL_ARCH THEN w
        ELSE IF column_idx < 0 THEN w
        ELSE [ w EXCEPT !.archetypes[rec.archetype].chunks[rec.chunk_index + 1]
                          .columns[column_idx + 1]
                          .changed_ticks[rec.row % TECS_CHUNK_SIZE] = w.tick ]

(***************************************************************************)
(* Hierarchy.  world.entity_children is the side table: a vector of        *)
(* [key, entities, capacity], one tecs_children_t per parent.  The bytes   *)
(* of a handle stored in a component are the integer index + generation *  *)
(* GenerationUnit; the bytes of the mirrored tecs_children_t are its count *)
(* and capacity.                                                           *)
(***************************************************************************)
PARENT_ID == parent_component_id
CHILDREN_ID == children_component_id

GenerationUnit == 65536
HandleBits(e) == TECS_ENTITY_INDEX(e) + TECS_ENTITY_GENERATION(e) * GenerationUnit
HandleOf(bits) == TECS_ENTITY_MAKE(bits % GenerationUnit, bits \div GenerationUnit)

ChildrenBytes(children) == [count |-> Len(children.entities), capacity |-> children.capacity]

\* the index (from 1) of the entry of entity in the side table, 0 for NULL
RECURSIVE FindChildrenFrom(_, _, _)
FindChildrenFrom(w, entity, i) ==
    IF i > Len(w.entity_children) THEN 0
    ELSE IF w.entity_children[i].key = entity THEN i
    ELSE FindChildrenFrom(w, entity, i + 1)

tecs_find_children(w, entity) == FindChildrenFrom(w, entity, 1)

\* the result: the world afterwards and the index of the entry
tecs_ensure_children(w, entity) ==
    LET found == tecs_find_children(w, entity)
    IN  IF found # 0 THEN [w |-> w, children |-> found]
        ELSE [ w |-> [w EXCEPT !.entity_children =
                        Append(@, [key |-> entity, entities |-> << >>, capacity |-> 4])],
               children |-> Len(w.entity_children) + 1 ]

tecs_remove_children_entry(w, entity) ==
    LET i == tecs_find_children(w, entity)
        last == Len(w.entity_children)
    IN  IF i = 0 THEN w
        ELSE [w EXCEPT !.entity_children =
                 SubSeq(IF i # last THEN [@ EXCEPT ![i] = w.entity_children[last]] ELSE @,
                        1, last - 1)]

\* index (from 1) of the first occurrence of child in the list, 0 if none
RECURSIVE IndexOfChild(_, _, _)
IndexOfChild(entities, child, i) ==
    IF i > Len(entities) THEN 0
    ELSE IF entities[i] = child THEN i
    ELSE IndexOfChild(entities, child, i + 1)

\* the loop that takes child out of the list of owner (entry ci of the side
\* table) by swap with the last element, and mirrors the list to the ECS
DetachChild(w, owner, ci, child) ==
    LET list == w.entity_children[ci].entities
        i == IndexOfChild(list, child, 1)
        n == Len(list)
        list2 == SubSeq([list EXCEPT ![i] = list[n]], 1, n - 1)
        w1 == [w EXCEPT !.entity_children[ci].entities = list2]
    IN  IF i = 0 THEN w
        ELSE IF Len(list2) > 0
             THEN Only({ tecs_set(x, owner, CHILDREN_ID, ChildrenBytes(x.entity_children[ci]),
                                  SizeOf(CHILDREN_ID)) : x \in {w1} })
             ELSE Only({ tecs_unset(x, owner, CHILDREN_ID) :
                           x \in {tecs_remove_children_entry(w1, owner)} })

max_depth == 256

\* n iterations of the loop of tecs_is_ancestor_of from `current', run as two
\* halves: [done, found, current], done when the function has returned
RECURSIVE AncestorWalk(_, _, _, _)
AncestorWalk(w, ancestor, current, n) ==
    IF n = 1
    THEN LET parent == tecs_get(w, current, PARENT_ID)
         IN  IF current = TECS_ENTITY_NULL \/ parent = NULL
             THEN [done |-> TRUE, found |-> FALSE, current |-> current]
             ELSE IF HandleOf(parent) = ancestor
             THEN [done |-> TRUE, found |-> TRUE, current |-> current]
             ELSE [done |-> FALSE, found |-> FALSE, current |-> HandleOf(parent)]
    ELSE LET first == AncestorWalk(w, ancestor, current, n \div 2)
         IN  IF first.done THEN first
             ELSE AncestorWalk(w, ancestor, first.current, n - (n \div 2))

tecs_is_ancestor_of(w, ancestor, descendant) ==
    IF ~tecs_entity_exists(w, ancestor) \/ ~tecs_entity_exists(w, descendant) THEN FALSE
    ELSE AncestorWalk(w, ancestor, descendant, max_depth).found

tecs_add_child(w, parent, child) ==
    LET current_parent == tecs_get(w, child, PARENT_ID)
        old_parent == HandleOf(current_parent)
        old_children == tecs_find_children(w, old_parent)
        w1 == IF current_parent # NULL /\ old_children # 0
              THEN DetachChild(w, old_parent, old_children, child)
              ELSE w
        \* the three steps that follow, each on the world the previous one left
        SetParent(x) ==
            tecs_set(x, child, PARENT_ID, HandleBits(parent), SizeOf(PARENT_ID))
        AppendChild(w2) ==
            LET r == tecs_ensure_children(w2, parent)
                ci == r.children
                grown == IF Len(r.w.entity_children[ci].entities)
                              >= r.w.entity_children[ci].capacity
                         THEN [r.w EXCEPT !.entity_children[ci].capacity = @ * 2]
                         ELSE r.w
            IN  [ w |-> [grown EXCEPT !.entity_children[ci].entities = Append(@, child)],
                  children |-> ci ]
        SetChildren(r) ==
            tecs_set(r.w, parent, CHILDREN_ID, ChildrenBytes(r.w.entity_children[r.children]),
                     SizeOf(CHILDREN_ID))
    IN  IF ~tecs_entity_exists(w, parent) \/ ~tecs_entity_exists(w, child) \/ parent = child
        THEN w
        ELSE IF tecs_is_ancestor_of(w, child, parent) THEN w
        ELSE IF current_parent # NULL /\ current_parent = HandleBits(parent) THEN w
        ELSE Only({ SetChildren(r) :
                      r \in { AppendChild(w2) : w2 \in { SetParent(x) : x \in {w1} } } })

tecs_remove_child(w, parent, child) ==
    LET parent_comp == tecs_get(w, child, PARENT_ID)
        w1 == tecs_unset(w, child, PARENT_ID)
        children == tecs_find_children(w1, parent)
    IN  IF ~tecs_entity_exists(w, parent) \/ ~tecs_entity_exists(w, child) THEN w
        ELSE IF parent_comp = NULL THEN w
        ELSE IF parent_comp # HandleBits(parent) THEN w
        ELSE Only({ IF tecs_find_children(x, parent) = 0 THEN x
                    ELSE DetachChild(x, parent, tecs_find_children(x, parent), child) :
                    x \in {w1} })

\* tecs_unset(world, children->entities[i], PARENT_ID) for i from 1 on
RECURSIVE UnsetParents(_, _, _)
UnsetParents(w, entities, i) ==
    IF i > Len(entities) THEN w
    ELSE Only({ UnsetParents(x, entities, i + 1) :
                  x \in {tecs_unset(w, entities[i], PARENT_ID)} })

tecs_remove_all_children(w, parent) ==
    LET children == tecs_find_children(w, parent)
        w1 == UnsetParents(w, w.entity_children[children].entities, 1)
    IN  IF ~tecs_entity_exists(w, parent) THEN w
        ELSE IF children = 0 THEN w
        ELSE IF Len(w.entity_children[children].entities) = 0 THEN w
        ELSE Only({ tecs_unset(x, parent, CHILDREN_ID) :
                      x \in {tecs_remove_children_entry(w1, parent)} })

\* the handle returned; TECS_ENTITY_NULL for "none"
tecs_get_parent(w, child) ==
    IF ~tecs_entity_exists(w, child) THEN TECS_ENTITY_NULL
    ELSE IF tecs_get(w, child, PARENT_ID) = NULL THEN TECS_ENTITY_NULL
    ELSE HandleOf(tecs_get(w, child, PARENT_ID))

tecs_has_parent(w, child) == tecs_has(w, child, PARENT_ID)

\* the pointer returned: the index of the entry in the side table, 0 for NULL
tecs_get_children(w, parent) ==
    IF ~tecs_entity_exists(w, parent) THEN 0
    ELSE tecs_find_children(w, parent)

tecs_child_count(w, parent) ==
    IF tecs_get_children(w, parent) = 0 THEN 0
    ELSE Len(w.entity_children[tecs_get_children(w, parent)].entities)

(***************************************************************************)
(* Queries.  A query is [terms, matched_archetypes, last_structural_version,*)
(* built]; an iterator is [archetype_index, chunk_index, current_chunk,    *)
(* current_archetype] (current_chunk is a chunk index of                   *)
(* current_archetype, NULL for a null pointer).                            *)
(***************************************************************************)
Term(type, cid) == [type |-> type, component_id |-> cid]

tecs_query_new == [ terms |-> << >>,
                    matched_archetypes |-> << >>,
                    last_structural_version |-> 0,
                    built |-> FALSE ]

tecs_query_add_term(q, type, cid) == [q EXCEPT !.terms = Append(@, Term(type, cid))]

RECURSIVE TermsMatch(_, _, _)
TermsMatch(arch, terms, i) ==
    IF i > Len(terms) THEN TRUE
    ELSE LET has == tecs_archetype_has_component(arch, terms[i].component_id)
         IN  IF terms[i].type \in {"WITH", "CHANGED", "ADDED"} /\ ~has THEN FALSE
             ELSE IF terms[i].type = "WITHOUT" /\ has THEN FALSE
             ELSE TermsMatch(arch, terms, i + 1)

tecs_archetype_matches_query(arch, q) == TermsMatch(arch, q.terms, 1)

\* the archetypes of slots i .. capacity-1 that match, in slot order
RECURSIVE MatchSlots(_, _, _)
MatchSlots(w, q, i) ==
    IF i >= w.archetype_table_capacity THEN << >>
    ELSE LET arch == w.archetype_table[i].archetype
         IN  IF arch # NULL_ARCH /\ tecs_archetype_matches_query(w.archetypes[arch], q)
             THEN <<arch>> \o MatchSlots(w, q, i + 1)
             ELSE MatchSlots(w, q, i + 1)

tecs_query_build(w, q) ==
    [ q EXCEPT !.matched_archetypes = MatchSlots(w, q, 0),
               !.last_structural_version = w.structural_change_version,
               !.built = TRUE ]

\* the result: the query afterwards and the iterator
tecs_query_iter_init(w, q) ==
    [ query |-> IF ~q.built \/ q.last_structural_version # w.structural_change_version
                THEN tecs_query_build(w, q) ELSE q,
      iter |-> [ archetype_index |-> 0,
                 chunk_index |-> NULL,
                 current_chunk |-> NULL,
                 current_archetype |-> NULL_ARCH ] ]

\* the loop of tecs_iter_next, entered with chunk_index already advanced
RECURSIVE IterScan(_, _, _)
IterScan(w, q, it) ==
    IF it.archetype_index >= Len(q.matched_archetypes)
    THEN [iter |-> it, result |-> FALSE]
    ELSE LET arch == q.matched_archetypes[it.archetype_index + 1]
             it1 == [it EXCEPT !.current_archetype = arch]
         IN  IF it.chunk_index < Len(w.archetypes[arch].chunks)
             THEN LET it2 == [it1 EXCEPT !.current_chunk = it.chunk_index]
                  IN  IF w.archetypes[arch].chunks[it.chunk_index + 1].count > 0
                      THEN [iter |-> it2, result |-> TRUE]
                      ELSE IterScan(w, q, [it2 EXCEPT !.chunk_index = @ + 1])
             ELSE IterScan(w, q, [it1 EXCEPT !.archetype_index = @ + 1,
                                             !.chunk_index = 0])

\* the result: the iterator afterwards and the boolean returned
tecs_iter_next(w, q, it) == IterScan(w, q, [it EXCEPT !.chunk_index = @ + 1])

tecs_iter_count(w, it) ==
    IF it.current_chunk = NULL THEN 0
    ELSE w.archetypes[it.current_archetype].chunks[it.current_chunk + 1].count

\* is_native_storage of a column: its provider is the default one
IsNativeStorage(cid) ==
    IF cid \in ComponentIds THEN component_registry[cid].provider = "native" ELSE TRUE

\* the pointer returned: null, or the base of the array of a column
NullPointer == [null |-> TRUE]

tecs_iter_column(w, it, index) ==
    IF it.current_chunk = NULL \/ it.current_archetype = NULL_ARCH THEN NullPointer
    ELSE IF index < 0 \/ index >= Len(w.archetypes[it.current_archetype].data_components)
    THEN NullPointer
    ELSE IF IsNativeStorage(w.archetypes[it.current_archetype].data_components[index + 1].id)
    THEN [ null |-> FALSE, archetype |-> it.current_archetype,
           chunk |-> it.current_chunk, column |-> index ]
    ELSE NullPointer

(***************************************************************************)
(* The application layer (src/tinyecs_bevy.h): stages, systems with labels *)
(* and ordering constraints, per-system Commands buffers, event channels   *)
(* and state machines.                                                     *)
(*                                                                         *)
(* Representation.  A tbevy_stage_t* is the position of the stage in       *)
(* `app.stages`, a tbevy_system_t* the position of the system in           *)
(* `app.all_systems`, a tbevy_system_list_t* an index into `app.lists`, an *)
(* event channel or state machine pointer an index into `app.channels` or  *)
(* `app.machines`; 0 is the null pointer of each kind.  A label is the     *)
(* sequence of its character codes.  A hash map is the C open-addressing   *)
(* table.  The world of the application is the variable `world`.           *)
(***************************************************************************)
TBEVY_STAGE_STARTUP == 0
TBEVY_STAGE_FIRST == 1
TBEVY_STAGE_PRE_UPDATE == 2
TBEVY_STAGE_UPDATE == 3
TBEVY_STAGE_POST_UPDATE == 4
TBEVY_STAGE_LAST == 5
TBEVY_STAGE_CUSTOM == 6

\* the labels are short, so the 64-bit hash is never reduced
RECURSIVE HashFold(_, _)
HashFold(hash, str) ==
    IF str = << >> THEN hash
    ELSE HashFold(hash * 32 + hash + Head(str), Tail(str))

tbevy_hash_string(str) == HashFold(5381, str)

EmptyEntry == [key |-> 0, value |-> 0, occupied |-> FALSE]

tbevy_hashmap_init(capacity) ==
    [ entries |-> [i \in 0 .. (capacity - 1) |-> EmptyEntry],
      size |-> 0,
      capacity |-> capacity ]

\* the do-while loop of tbevy_hashmap_get
RECURSIVE HashmapProbe(_, _, _, _)
HashmapProbe(map, key, index, start) ==
    LET entry == map.entries[index]
        next == (index + 1) % map.capacity
    IN  IF entry.occupied /\ entry.key = key THEN entry.value
        ELSE IF ~entry.occupied THEN 0
        ELSE IF next = start THEN 0
        ELSE HashmapProbe(map, key, next, start)

tbevy_hashmap_get(map, key) ==
    HashmapProbe(map, key, key % map.capacity, key % map.capacity)

RECURSIVE HashmapFreeSlot(_, _, _)
HashmapFreeSlot(entries, capacity, index) ==
    IF entries[index].occupied
    THEN HashmapFreeSlot(entries, capacity, (index + 1) % capacity)
    ELSE index

RECURSIVE HashmapRehash(_, _, _, _)
HashmapRehash(map, i, new_entries, new_capacity) ==
    IF i >= map.capacity THEN new_entries
    ELSE IF map.entries[i].occupied
    THEN LET index == HashmapFreeSlot(new_entries, new_capacity,
                                      map.entries[i].key % new_capacity)
         IN  HashmapRehash(map, i + 1,
                           [new_entries EXCEPT ![index] = map.entries[i]],
                           new_capacity)
    ELSE HashmapRehash(map, i + 1, new_entries, new_capacity)

\* size >= capacity * 0.75
HashmapResize(map) ==
    IF map.size * 4 >= map.capacity * 3
    THEN LET new_capacity == map.capacity * 2
         IN  [ map EXCEPT
                 !.entries = HashmapRehash(map, 0,
                                 [i \in 0 .. (new_capacity - 1) |-> EmptyEntry],
                                 new_capacity),
                 !.capacity = new_capacity ]
    ELSE map

RECURSIVE HashmapSlotFor(_, _, _)
HashmapSlotFor(map, key, index) ==
    IF map.entries[index].occupied /\ map.entries[index].key # key
    THEN HashmapSlotFor(map, key, (index + 1) % map.capacity)
    ELSE index

tbevy_hashmap_set(map0, key, value) ==
    LET map == HashmapResize(map0)
        index == HashmapSlotFor(map, key, key % map.capacity)
    IN  [ map EXCEPT
            !.size = IF map.entries[index].occupied THEN @ ELSE @ + 1,
            !.entries[index] = [key |-> key, value |-> value, occupied |-> TRUE] ]

tbevy_system_list_init == << >>

tbevy_system_list_add(list, system) == Append(list, system)

tbevy_stage_alloc(id, name) == [id |-> id, name |-> name, order |-> 0]

tbevy_app_add_stage(a, stage) ==
    LET lists == Append(a.lists, tbevy_system_list_init)
    IN  [ a EXCEPT
            !.stages = Append(@, [stage EXCEPT !.order = Len(a.stages)]),
            !.lists = lists,
            !.stage_systems = tbevy_hashmap_set(@, Len(a.stages) + 1, Len(lists)) ]

tbevy_stage_custom(name) == tbevy_stage_alloc(TBEVY_STAGE_CUSTOM, name)

\* a stage is known by its position in app.stages
tbevy_stage_after(a, stage, after) ==
    [a EXCEPT !.stages[stage].order = a.stages[after].order + 1]

tbevy_stage_before(a, stage, before) ==
    [a EXCEPT !.stages[stage].order = a.stages[before].order - 1]

DefaultStageNames ==
    <<"Startup", "First", "PreUpdate", "Update", "PostUpdate", "Last">>

RECURSIVE AddDefaultStages(_, _)
AddDefaultStages(a, id) ==
    IF id > TBEVY_STAGE_LAST THEN a
    ELSE AddDefaultStages(
             tbevy_app_add_stage(a, tbevy_stage_alloc(id, DefaultStageNames[id + 1])),
             id + 1)

tbevy_app_new ==
    AddDefaultStages(
        [ stages |-> << >>,
          lists |-> << >>,
          stage_systems |-> tbevy_hashmap_init(64),
          default_stages |-> [id \in TBEVY_STAGE_STARTUP .. TBEVY_STAGE_LAST |-> id + 1],
          all_systems |-> << >>,
          labeled_systems |-> tbevy_hashmap_init(128),
          event_channels |-> tbevy_hashmap_init(32),
          channels |-> << >>,
          state_machines |-> tbevy_hashmap_init(16),
          machines |-> << >>,
          global_observers |-> << >>,
          startup_run |-> FALSE,
          system_declaration_counter |-> 0 ],
        TBEVY_STAGE_STARTUP)

tbevy_stage_default(a, stage_id) == a.default_stages[stage_id]

\* the builder that tbevy_app_add_system returns points at the last system
tbevy_app_add_system(a) ==
    [ a EXCEPT
        !.all_systems = Append(@, [ label |-> << >>,
                                    stage |-> 0,
                                    before_systems |-> << >>,
                                    after_systems |-> << >>,
                                    run_conditions |-> << >>,
                                    declaration_order |-> a.system_declaration_counter,
                                    visited |-> FALSE,
                                    visiting |-> FALSE ]),
        !.system_declaration_counter = @ + 1 ]

tbevy_system_in_stage(a, system, stage) ==
    [a EXCEPT !.all_systems[system].stage = stage]

tbevy_system_label(a, system, label) ==
    [ a EXCEPT
        !.all_systems[system].label = label,
        !.labeled_systems = tbevy_hashmap_set(@, tbevy_hash_string(label), system) ]

tbevy_system_after(a, system, label) ==
    LET after_sys == tbevy_hashmap_get(a.labeled_systems, tbevy_hash_string(label))
    IN  IF after_sys # 0
        THEN [a EXCEPT !.all_systems[system].after_systems = Append(@, after_sys)]
        ELSE a

tbevy_system_before(a, system, label) ==
    LET before_sys == tbevy_hashmap_get(a.labeled_systems, tbevy_hash_string(label))
    IN  IF before_sys # 0
        THEN [a EXCEPT !.all_systems[system].before_systems = Append(@, before_sys)]
        ELSE a

\* a condition function is known by a number
tbevy_system_run_if(a, system, condition) ==
    [a EXCEPT !.all_systems[system].run_conditions = Append(@, condition)]

\* the first stage of app.stages with the given id, 0 if there is none
RECURSIVE FirstStageWithId(_, _, _)
FirstStageWithId(a, id, i) ==
    IF i >= Len(a.stages) THEN 0
    ELSE IF a.stages[i + 1].id = id THEN i + 1
    ELSE FirstStageWithId(a, id, i + 1)

tbevy_system_build(a, system) ==
    LET stage == IF a.all_systems[system].stage = 0
                 THEN FirstStageWithId(a, TBEVY_STAGE_UPDATE, 0)
                 ELSE a.all_systems[system].stage
        a1 == [a EXCEPT !.all_systems[system].stage = stage]
        sys_list == IF stage # 0 THEN tbevy_hashmap_get(a.stage_systems, stage) ELSE 0
    IN  IF sys_list # 0
        THEN [a1 EXCEPT !.lists[sys_list] = tbevy_system_list_add(@, system)]
        ELSE a1

\* tbevy_visit_system works on the systems and the result list
RECURSIVE tbevy_visit_system(_, _, _), VisitBefore(_, _, _, _)

\* a visit that appends a system it meets again while it is being visited
VisitAppendsOnCycle(systems, system, result) ==
    IF systems[system].visited THEN [systems |-> systems, result |-> result]
    ELSE IF systems[system].visiting
    THEN [systems |-> systems, result |-> tbevy_system_list_add(result, system)]
    ELSE LET r == VisitBefore([systems EXCEPT ![system].visiting = TRUE],
                              system, 0, result)
         IN  [ systems |-> [ r.systems EXCEPT ![system].visiting = FALSE,
                                               ![system].visited = TRUE ],
               result |-> tbevy_system_list_add(r.result, system) ]

tbevy_visit_system(systems, system, result) ==
    IF systems[system].visited THEN [systems |-> systems, result |-> result]
    ELSE IF systems[system].visiting THEN [systems |-> systems, result |-> result]
    ELSE LET r == VisitBefore([systems EXCEPT ![system].visiting = TRUE],
                              system, 0, result)
         IN  [ systems |-> [ r.systems EXCEPT ![system].visiting = FALSE,
                                               ![system].visited = TRUE ],
               result |-> tbevy_system_list_add(r.result, system) ]

VisitBefore(systems, system, i, result) ==
    IF i >= Len(systems[system].before_systems)
    THEN [systems |-> systems, result |-> result]
    ELSE LET r == tbevy_visit_system(systems, systems[system].before_systems[i + 1],
                                     result)
         IN  VisitBefore(r.systems, system, i + 1, r.result)

RECURSIVE ResetVisited(_, _, _)
ResetVisited(systems, list, i) ==
    IF i >= Len(list) THEN systems
    ELSE ResetVisited([ systems EXCEPT ![list[i + 1]].visited = FALSE,
                                       ![list[i + 1]].visiting = FALSE ],
                      list, i + 1)

RECURSIVE VisitAll(_, _, _, _)
VisitAll(systems, list, i, sorted) ==
    IF i >= Len(list) THEN [systems |-> systems, result |-> sorted]
    ELSE LET r == tbevy_visit_system(systems, list[i + 1], sorted)
         IN  VisitAll(r.systems, list, i + 1, r.result)

tbevy_sort_systems(a, sys_list) ==
    LET r == VisitAll(ResetVisited(a.all_systems, a.lists[sys_list], 0),
                      a.lists[sys_list], 0, tbevy_system_list_init)
    IN  [a EXCEPT !.all_systems = r.systems, !.lists[sys_list] = r.result]

(***************************************************************************)
(* Commands.  A buffer is the vector of deferred commands and the vector   *)
(* of the entities it spawned.                                             *)
(***************************************************************************)
tbevy_commands_init == [commands |-> << >>, spawned_entities |-> << >>]

\* a null data pointer is NULL; the bytes are copied when there are any
tbevy_commands_queue(commands, type, entity_id, component_id, data, data_size) ==
    [ commands EXCEPT
        !.commands = Append(@, [ type |-> type,
                                 entity_id |-> entity_id,
                                 component_id |-> component_id,
                                 data_size |-> data_size,
                                 data |-> IF data # NULL /\ data_size > 0
                                          THEN data ELSE NULL ]) ]

tbevy_commands_spawn(w, commands) ==
    LET r == tecs_entity_new(w)
    IN  [ w |-> r.w,
          commands |-> [commands EXCEPT !.spawned_entities = Append(@, r.entity)],
          entity |-> r.entity ]

tbevy_entity_insert(commands, entity_id, component_id, data, size) ==
    tbevy_commands_queue(commands, "TBEVY_CMD_INSERT", entity_id, component_id, data, size)

tbevy_entity_remove(commands, entity_id, component_id) ==
    tbevy_commands_queue(commands, "TBEVY_CMD_REMOVE", entity_id, component_id, NULL, 0)

tbevy_entity_despawn(commands, entity_id) ==
    tbevy_commands_queue(commands, "TBEVY_CMD_DESPAWN", entity_id, 0, NULL, 0)

\* nothing appends to the world's own command buffer, so the loop of
\* tecs_end_deferred runs over no entries
tecs_begin_deferred(w) == [w EXCEPT !.in_deferred = TRUE]

tecs_end_deferred(w) == [w EXCEPT !.in_deferred = FALSE]

\* one iteration of the loop of tbevy_commands_apply
ApplyCommand(w, cmd) ==
    IF cmd.type = "TBEVY_CMD_INSERT"
    THEN IF cmd.data # NULL /\ cmd.data_size > 0
         THEN tecs_set(w, cmd.entity_id, cmd.component_id, cmd.data, cmd.data_size)
         ELSE w
    ELSE IF cmd.type = "TBEVY_CMD_REMOVE"
    THEN tecs_unset(w, cmd.entity_id, cmd.component_id)
    ELSE IF cmd.type = "TBEVY_CMD_DESPAWN"
    THEN tecs_entity_delete(w, cmd.entity_id)
    ELSE w

RECURSIVE ApplyFrom(_, _, _)
ApplyFrom(w, cmds, i) ==
    IF i >= Len(cmds) THEN w
    ELSE ApplyFrom(ApplyCommand(w, cmds[i + 1]), cmds, i + 1)

tbevy_commands_apply(w, commands) ==
    IF Len(commands.commands) = 0
    THEN [w |-> w, commands |-> [commands EXCEPT !.spawned_entities = << >>]]
    ELSE [ w |-> tecs_end_deferred(ApplyFrom(tecs_begin_deferred(w),
                                             commands.commands, 0)),
           commands |-> tbevy_commands_init ]

(***************************************************************************)
(* Observers.  An observer is [trigger_type, component_id, entity_id]; its  *)
(* callback is known by the position of the observer in the list.  No      *)
(* entity-scoped observer is attached, so the entity_observers map of the  *)
(* application stays empty and its lookup in tbevy_app_trigger finds no    *)
(* list.                                                                   *)
(***************************************************************************)
TBEVY_TRIGGER_ON_ADD == 2
TBEVY_TRIGGER_ON_INSERT == 3
TBEVY_TRIGGER_CUSTOM == 5

tbevy_app_add_observer(a, trigger_type, component_id) ==
    [ a EXCEPT !.global_observers =
                 Append(@, [ trigger_type |-> trigger_type,
                             component_id |-> component_id,
                             entity_id |-> 0 ]) ]

\* the calls of callbacks that tbevy_app_trigger makes, in order
tbevy_app_trigger(a, trigger) ==
    LET Fires(i) ==
            /\ a.global_observers[i].trigger_type = trigger.type
            /\ \/ a.global_observers[i].component_id = 0
               \/ a.global_observers[i].component_id = trigger.component_id
        CallsFrom[i \in 1 .. Len(a.global_observers) + 1] ==
            IF i > Len(a.global_observers) THEN << >>
            ELSE (IF Fires(i)
                  THEN << [ observer |-> i,
                            entity |-> trigger.entity_id,
                            component_id |-> trigger.component_id,
                            data |-> trigger.component_data ] >>
                  ELSE << >>) \o CallsFrom[i + 1]
    IN  CallsFrom[1]

tbevy_app_flush_observers(a) == a

(***************************************************************************)
(* Events.  A buffer is the sequence of the elements written to it so far; *)
(* the counts say how many of them are current.                            *)
(***************************************************************************)
StoreAt(buffer, i, v) ==
    IF i < Len(buffer) THEN [buffer EXCEPT ![i + 1] = v] ELSE Append(buffer, v)

LoadAt(buffer, i) == IF i < Len(buffer) THEN buffer[i + 1] ELSE Uninit

tbevy_app_send_event(a, event_type_id, event_data, event_size) ==
    LET found == tbevy_hashmap_get(a.event_channels, event_type_id)
        chan == IF found = 0 THEN Len(a.channels) + 1 ELSE found
        a1 == IF found = 0
              THEN [ a EXCEPT
                       !.channels = Append(@, [ read_buffer |-> << >>,
                                                write_buffer |-> << >>,
                                                read_count |-> 0,
                                                write_count |-> 0,
                                                element_size |-> event_size,
                                                epoch |-> 0,
                                                active_tick |-> 0 ]),
                       !.event_channels = tbevy_hashmap_set(@, event_type_id, chan) ]
              ELSE a
    IN  [ a1 EXCEPT
            !.channels[chan].write_buffer =
                StoreAt(@, a1.channels[chan].write_count, event_data),
            !.channels[chan].write_count = @ + 1 ]

\* the event data the callback is called with, in the order of the calls
tbevy_app_read_events(a, event_type_id) ==
    LET chan == tbevy_hashmap_get(a.event_channels, event_type_id)
    IN  IF chan = 0 THEN << >>
        ELSE [ i \in 1 .. a.channels[chan].read_count |->
                 LoadAt(a.channels[chan].read_buffer, i - 1) ]

\* a swap that leaves write_count as it is
SwapChannelKeepCount(chan) ==
    [ chan EXCEPT
        !.read_buffer = chan.write_buffer,
        !.write_buffer = chan.read_buffer,
        !.read_count = chan.write_count,
        !.epoch = @ + 1 ]

SwapChannel(chan) ==
    [ chan EXCEPT
        !.read_buffer = chan.write_buffer,
        !.write_buffer = chan.read_buffer,
        !.read_count = chan.write_count,
        !.write_count = 0,
        !.epoch = @ + 1 ]

RECURSIVE ClearEventsFrom(_, _)
ClearEventsFrom(a, i) ==
    IF i >= a.event_channels.capacity THEN a
    ELSE IF ~a.event_channels.entries[i].occupied THEN ClearEventsFrom(a, i + 1)
    ELSE ClearEventsFrom(
             [a EXCEPT !.channels[a.event_channels.entries[i].value] = SwapChannel(@)],
             i + 1)

tbevy_app_clear_events(a) == ClearEventsFrom(a, 0)

(***************************************************************************)
(* State machines.                                                         *)
(***************************************************************************)
tbevy_app_add_state(a, state_type_id, initial_state) ==
    [ a EXCEPT
        !.machines = Append(@, [ type_id |-> state_type_id,
                                 current_state |-> initial_state,
                                 previous_state |-> initial_state,
                                 queued_state |-> 0,
                                 has_queued |-> FALSE,
                                 processed_this_frame |-> FALSE ]),
        !.state_machines = tbevy_hashmap_set(@, state_type_id, Len(a.machines) + 1) ]

tbevy_app_get_state(a, state_type_id) ==
    LET sm == tbevy_hashmap_get(a.state_machines, state_type_id)
    IN  IF sm # 0 THEN a.machines[sm].current_state ELSE 0

tbevy_app_set_state(a, state_type_id, new_state) ==
    LET sm == tbevy_hashmap_get(a.state_machines, state_type_id)
    IN  IF sm # 0
        THEN [ a EXCEPT !.machines[sm].queued_state = new_state,
                        !.machines[sm].has_queued = TRUE ]
        ELSE a

tbevy_app_add_system_on_enter(a, state_type_id, state_value) ==
    tbevy_app_add_system(a)

tbevy_app_add_system_on_exit(a, state_type_id, state_value) ==
    tbevy_app_add_system(a)

(***************************************************************************)
(* Running the stages.  tbevy_app_update and tbevy_app_run_startup call    *)
(* the functions of the systems, so a call of them is suspended while a    *)
(* system function runs.  The operators below work on the triple           *)
(* [app, world, run] and carry a call from one point where it calls a      *)
(* system function to the next, or to its return.  `run` holds the locals  *)
(* of the suspended call:                                                  *)
(*   fn        the function the client called ("idle" when none)           *)
(*   startup   whether tbevy_app_run_startup is on the stack               *)
(*   i         the stage loop variable of tbevy_app_update                 *)
(*   stage, sys_list, j   the parameter, the list and the loop variable of *)
(*             tbevy_run_stage_systems                                     *)
(*   condition the position (from 1) of the run condition whose function   *)
(*             is running, of the system at j (0 for none)                 *)
(*   system    the system whose function is running (0 for none)           *)
(*   commands  sys_commands, the Commands buffer of that system            *)
(*   ran       the systems tbevy_run_stage_systems has called in this call *)
(*   called    the systems called since the client's call began            *)
(*   swap_tick the world tick at the last swap of the event buffers        *)
(***************************************************************************)
Idle ==
    [ fn |-> "idle", startup |-> FALSE, i |-> 0, stage |-> 0, sys_list |-> 0, j |-> 0,
      condition |-> 0, system |-> 0, commands |-> tbevy_commands_init,
      ran |-> << >>, called |-> << >>, swap_tick |-> NULL ]

RECURSIVE StageLoop(_), StageReturn(_), UpdateLoop(_), tbevy_run_stage_systems(_, _)

\* should_run held: the Commands buffer is made and the function of the
\* system at j is called
CallSystem(s) ==
    LET sys == s.app.lists[s.run.sys_list][s.run.j + 1]
    IN  [ s EXCEPT !.run.condition = 0,
                   !.run.system = sys,
                   !.run.commands = tbevy_commands_init,
                   !.run.ran = Append(@, sys),
                   !.run.called = Append(@, sys) ]

\* the loop over sys_list from j: up to the call of the next run condition
\* or system function
StageLoop(s) ==
    LET list == s.app.lists[s.run.sys_list]
    IN  IF s.run.j < Len(list)
        THEN IF Len(s.app.all_systems[list[s.run.j + 1]].run_conditions) > 0
             THEN [s EXCEPT !.run.condition = 1]
             ELSE CallSystem(s)
        ELSE StageReturn([s EXCEPT !.app = tbevy_app_flush_observers(@)])

\* a run condition that lets every system run
ConditionIgnored(s, result) ==
    IF s.run.condition
         < Len(s.app.all_systems[s.app.lists[s.run.sys_list][s.run.j + 1]].run_conditions)
    THEN [s EXCEPT !.run.condition = @ + 1]
    ELSE CallSystem(s)

\* the run condition returned `result': the loop over the conditions of the
\* system at j goes on, or the system is skipped
AfterCondition(s, result) ==
    IF ~result
    THEN StageLoop([s EXCEPT !.run.condition = 0, !.run.j = @ + 1])
    ELSE IF s.run.condition
              < Len(s.app.all_systems[s.app.lists[s.run.sys_list][s.run.j + 1]].run_conditions)
    THEN [s EXCEPT !.run.condition = @ + 1]
    ELSE CallSystem(s)

\* tbevy_run_stage_systems returns into tbevy_app_run_startup or into the
\* loop of tbevy_app_update
StageReturn(s) ==
    IF s.run.startup
    THEN LET s1 == [s EXCEPT !.app.startup_run = TRUE, !.run.startup = FALSE]
         IN  IF s.run.fn = "tbevy_app_update"
             THEN UpdateLoop([s1 EXCEPT !.run.i = 0])
             ELSE [s1 EXCEPT !.run.fn = "idle"]
    ELSE UpdateLoop([s EXCEPT !.run.i = @ + 1])

tbevy_run_stage_systems(s, stage) ==
    LET sys_list == tbevy_hashmap_get(s.app.stage_systems, stage)
    IN  IF sys_list = 0 \/ Len(s.app.lists[sys_list]) = 0 THEN StageReturn(s)
        ELSE StageLoop([ s EXCEPT !.app = tbevy_sort_systems(s.app, sys_list),
                                  !.run.stage = stage,
                                  !.run.sys_list = sys_list,
                                  !.run.j = 0,
                                  !.run.ran = << >> ])

\* an end of tbevy_app_update in which the world tick advances first
UpdateTailTickFirst(s) ==
    LET s1 == [s EXCEPT !.world = tecs_world_update(s.world)]
    IN  [ s1 EXCEPT !.app = tbevy_app_clear_events(s1.app),
                    !.run.swap_tick = tecs_world_tick(s1.world),
                    !.run.fn = "idle" ]

\* the end of tbevy_app_update: the event buffers are swapped, then the
\* world tick advances
UpdateTail(s) ==
    LET s1 == [ s EXCEPT !.app = tbevy_app_clear_events(s.app),
                         !.run.swap_tick = tecs_world_tick(s.world) ]
    IN  [ s1 EXCEPT !.world = tecs_world_update(s1.world),
                    !.run.fn = "idle" ]

\* the stage loop of tbevy_app_update from i
UpdateLoop(s) ==
    IF s.run.i < Len(s.app.stages)
    THEN IF s.app.stages[s.run.i + 1].id # TBEVY_STAGE_STARTUP
         THEN tbevy_run_stage_systems(s, s.run.i + 1)
         ELSE UpdateLoop([s EXCEPT !.run.i = @ + 1])
    ELSE UpdateTail(s)

\* a tbevy_app_run_startup that does not look at startup_run
RunStartupAgain(s) ==
    LET stage == FirstStageWithId(s.app, TBEVY_STAGE_STARTUP, 0)
    IN  IF stage # 0
        THEN tbevy_run_stage_systems([s EXCEPT !.run.startup = TRUE], stage)
        ELSE StageReturn([s EXCEPT !.run.startup = TRUE])

tbevy_app_run_startup(s) ==
    IF s.app.startup_run THEN StageReturn([s EXCEPT !.run.startup = TRUE])
    ELSE LET stage == FirstStageWithId(s.app, TBEVY_STAGE_STARTUP, 0)
         IN  IF stage # 0
             THEN tbevy_run_stage_systems([s EXCEPT !.run.startup = TRUE], stage)
             ELSE StageReturn([s EXCEPT !.run.startup = TRUE])

tbevy_app_update(s) ==
    IF ~s.app.startup_run
    THEN tbevy_app_run_startup(s)
    ELSE UpdateLoop([s EXCEPT !.run.i = 0])

\* the system function returned and its commands were applied: the loop of
\* tbevy_run_stage_systems goes on
AfterSystem(s) ==
    StageLoop([s EXCEPT !.run.system = 0, !.run.j = @ + 1])

(***************************************************************************)
(* State.  `world` is the tecs_world_t, `query` and `iter` one query of    *)
(* the client and its iterator.  The other variables record what the       *)
(* client did, so that properties can speak of it:                         *)
(*   issued  the handles tecs_entity_new has returned                      *)
(*   alive   the issued handles not yet passed to tecs_entity_delete       *)
(*   held    for every handle, the components the client has set on it and *)
(*           not unset since it was spawned                                *)
(*   steps   the number of calls made that change the world                *)
(*   scan    the iteration in progress: its phase ("none", "running",      *)
(*           "done"), the chunks tecs_iter_next returned and the sum of    *)
(*           tecs_iter_count over them                                     *)
(* `app` is the tbevy_app_t (NoApp while the client has created none, its  *)
(* world is `world`), `run` the suspended call of tbevy_app_update or      *)
(* tbevy_app_run_startup, and `obs` what the client did with the           *)
(* application:                                                            *)
(*   builders  the systems whose builder was not passed to                 *)
(*             tbevy_system_build yet                                      *)
(*   built     the systems that were built                                 *)
(*   after     the pairs <<Y, X>>: Y was declared tbevy_system_after the   *)
(*             label that X had declared                                   *)
(*   before    the pairs <<X, Y>>: X was declared tbevy_system_before the  *)
(*             label that Y had declared                                   *)
(*   frame     the number of calls of tbevy_app_update that returned       *)
(*   start_view   what the client observed of every handle when the        *)
(*             running system function was called                          *)
(***************************************************************************)
VARIABLES world, issued, alive, held, steps, query, iter, scan, app, run, obs

vars == <<world, issued, alive, held, steps, query, iter, scan, app, run, obs>>

corevars == <<issued, alive, held, steps, query, iter, scan>>

appvars == <<app, run, obs>>

Handles == Indices \X (0 .. MaxGen)

NoQuery == [ terms |-> << >>, matched_archetypes |-> << >>,
             last_structural_version |-> 0, built |-> FALSE, exists |-> FALSE ]
NoIter == [ archetype_index |-> 0, chunk_index |-> NULL,
            current_chunk |-> NULL, current_archetype |-> NULL_ARCH ]
NoScan == [phase |-> "none", visited |-> << >>, total |-> 0]
NoApp == << >>
NoObs ==
    [ builders |-> {}, built |-> {}, after |-> {}, before |-> {}, frame |-> 0,
      start_view |-> << >>,
      start_tick |-> NULL,        \* the world tick when the latest update was called
      sent |-> << >>,             \* the events sent: type and frame of each
      \* the latest tbevy_app_read_events (type 0: none yet), the frame it was
      \* called in and the events its callback was called with
      last_read |-> [type |-> 0, frame |-> 0, events |-> << >>],
      state |-> NULL,             \* the state the client expects get_state to return
      queued |-> NULL,            \* the state the client has set since the latest update
      on_enter |-> {},            \* <<system, state>> of tbevy_app_add_system_on_enter
      on_exit |-> {},             \* <<system, state>> of tbevy_app_add_system_on_exit
      \* the OnExit and OnEnter systems of the transition the latest update had
      \* to perform
      expected |-> {},
      \* <<S, X>>: tbevy_stage_after(S, X) was called; <<S, Y>>: tbevy_stage_before(S, Y)
      pinned_after |-> {},
      pinned_before |-> {},
      \* what the client observed of the world before its latest call, when that
      \* call went through the handle of a despawned entity
      pre |-> [stale |-> FALSE],
      cleared |-> FALSE,          \* the latest call was tecs_world_clear
      \* the calls of run conditions (with the value returned, and whether the
      \* world was another when the application called the client next) and of
      \* system functions, in order
      log |-> << >>,
      \* the handle asked for and the handle returned, when the latest call was
      \* tecs_entity_new_with_id
      with_id |-> [called |-> FALSE],
      \* for every handle and data component, the world tick at the client's
      \* latest tecs_set or tecs_mark_changed and at its latest adding tecs_set
      ticks |-> [h \in Handles |-> [c \in DataComponents |-> [changed |-> 0, added |-> 0]]],
      history |-> << >>,          \* the systems called since the application was created
      startups |-> 0,             \* the calls of tbevy_app_run_startup that returned
      calls |-> << >>,            \* the calls of observer callbacks, in order
      \* for every global observer, the inserts applied to the world since it
      \* was added that its trigger kind and component select
      due |-> << >> ]

Init ==
    /\ world = tecs_world_new
    /\ issued = {}
    /\ alive = {}
    /\ held = [h \in Handles |-> {}]
    /\ steps = 0
    /\ query = NoQuery
    /\ iter = NoIter
    /\ scan = NoScan
    /\ app = NoApp
    /\ run = Idle
    /\ obs = NoObs

\* tecs_entity_new can be called while the index and generation bounds allow
CanSpawn ==
    IF Len(world.entities.recycled) > 0
    THEN world.entities.generations[world.entities.recycled[Len(world.entities.recycled)]] < MaxGen
    ELSE world.entities.dense_count < MaxIndex

EntityNew ==
    /\ CanSpawn
    /\ LET r == tecs_entity_new(world)
       IN  /\ world' = r.w
           /\ issued' = issued \cup {r.entity}
           /\ alive' = alive \cup {r.entity}
           /\ held' = [held EXCEPT ![r.entity] = {}]

EntityDelete(e) ==
    /\ world' = tecs_entity_delete(world, e)
    /\ alive' = alive \ {e}
    /\ UNCHANGED <<issued, held>>

Set(e, c, v) ==
    /\ world' = tecs_set(world, e, c, v, SizeOf(c))
    /\ held' = [held EXCEPT ![e] = @ \cup {c}]
    /\ UNCHANGED <<issued, alive>>

AddTag(e, c) ==
    /\ world' = tecs_add_tag(world, e, c)
    /\ held' = [held EXCEPT ![e] = @ \cup {c}]
    /\ UNCHANGED <<issued, alive>>

Unset(e, c) ==
    /\ world' = tecs_unset(world, e, c)
    /\ held' = [held EXCEPT ![e] = @ \ {c}]
    /\ UNCHANGED <<issued, alive>>

RemoveEmptyArchetypes ==
    /\ world' = tecs_remove_empty_archetypes(world)
    /\ UNCHANGED <<issued, alive, held>>

\* a call that changes the world counts against the bound; the client makes
\* none while it is iterating a query or after a call touched freed memory,
\* and what a finished iteration returned is forgotten once the world changes
Turn(bound) ==
    /\ steps < bound
    /\ ~world.fault
    /\ ~world.hang
    /\ scan.phase # "running"
    /\ steps' = steps + 1
    /\ scan' = NoScan
    /\ UNCHANGED <<query, iter, app, run, obs>>

\* one call of the client on the world, through the handle of a live entity
Next ==
    \/ Turn(MaxSteps) /\ EntityNew
    \/ \E e \in alive : Turn(MaxSteps) /\ EntityDelete(e)
    \/ \E e \in alive, c \in DataComponents, v \in Values : Turn(MaxSteps) /\ Set(e, c, v)
    \/ \E e \in alive, c \in UserComponents \ DataComponents : Turn(MaxSteps) /\ AddTag(e, c)
    \/ \E e \in alive, c \in UserComponents : Turn(MaxSteps) /\ Unset(e, c)
    \/ Turn(MaxSteps) /\ RemoveEmptyArchetypes

Spec == Init /\ [][Next]_vars

(***************************************************************************)
(* The specification with a query: the client also creates one query,      *)
(* builds it, and iterates it to the end; it does not change the world     *)
(* while an iteration is running.                                          *)
(***************************************************************************)
QueryShapes ==
    { <<Term("WITH", PositionId)>>,
      <<Term("WITH", PositionId), Term("WITHOUT", HealthId), Term("OPTIONAL", EnemyId)>>,
      <<Term("CHANGED", PositionId), Term("ADDED", HealthId)>> }

RECURSIVE AddTerms(_, _)
AddTerms(q, terms) ==
    IF terms = << >> THEN q
    ELSE AddTerms(tecs_query_add_term(q, terms[1].type, terms[1].component_id), Tail(terms))

QueryNew(terms) ==
    /\ ~world.fault
    /\ ~world.hang
    /\ ~query.exists
    /\ query' = AddTerms(tecs_query_new @@ [exists |-> TRUE], terms)
    /\ UNCHANGED <<world, issued, alive, held, steps, iter, scan, app, run, obs>>

QueryBuild ==
    /\ ~world.fault
    /\ ~world.hang
    /\ query.exists
    /\ scan.phase # "running"
    /\ query' = tecs_query_build(world, query)
    /\ UNCHANGED <<world, issued, alive, held, steps, iter, scan, app, run, obs>>

QueryIter ==
    /\ ~world.fault
    /\ ~world.hang
    /\ query.exists
    /\ scan.phase # "running"
    /\ LET r == tecs_query_iter_init(world, query)
       IN  /\ query' = r.query
           /\ iter' = r.iter
    /\ scan' = [phase |-> "running", visited |-> << >>, total |-> 0]
    /\ UNCHANGED <<world, issued, alive, held, steps, app, run, obs>>

IterNext ==
    /\ scan.phase = "running"
    /\ LET r == tecs_iter_next(world, query, iter)
       IN  /\ iter' = r.iter
           /\ scan' = IF r.result
                      THEN [ scan EXCEPT
                               !.visited = Append(@, <<r.iter.current_archetype,
                                                       r.iter.current_chunk>>),
                               !.total = @ + tecs_iter_count(world, r.iter) ]
                      ELSE [scan EXCEPT !.phase = "done"]
    /\ UNCHANGED <<world, issued, alive, held, steps, query, app, run, obs>>

NextQuery ==
    \/ Turn(MaxQuerySteps) /\ EntityNew
    \/ \E e \in alive : Turn(MaxQuerySteps) /\ EntityDelete(e)
    \/ \E e \in alive, c \in DataComponents, v \in Values : Turn(MaxQuerySteps) /\ Set(e, c, v)
    \/ \E e \in alive, c \in UserComponents \ DataComponents : Turn(MaxQuerySteps) /\ AddTag(e, c)
    \/ \E e \in alive, c \in UserComponents : Turn(MaxQuerySteps) /\ Unset(e, c)
    \/ Turn(MaxQuerySteps) /\ RemoveEmptyArchetypes
    \/ \E terms \in QueryShapes : QueryNew(terms)
    \/ QueryBuild
    \/ QueryIter
    \/ IterNext

SpecQuery == Init /\ [][NextQuery]_vars

(***************************************************************************)
(* The specification with a hierarchy: the client spawns and deletes       *)
(* entities and links live entities with the hierarchy operations.         *)
(***************************************************************************)
AddChild(p, c) ==
    /\ world' = tecs_add_child(world, p, c)
    /\ UNCHANGED <<issued, alive, held>>

RemoveChild(p, c) ==
    /\ world' = tecs_remove_child(world, p, c)
    /\ UNCHANGED <<issued, alive, held>>

RemoveAllChildren(p) ==
    /\ world' = tecs_remove_all_children(world, p)
    /\ UNCHANGED <<issued, alive, held>>

NextHierarchy ==
    \/ Turn(MaxHierarchySteps) /\ EntityNew
    \/ \E e \in alive : Turn(MaxHierarchySteps) /\ EntityDelete(e)
    \/ \E p \in alive, c \in alive : Turn(MaxHierarchySteps) /\ AddChild(p, c)
    \/ \E p \in alive, c \in alive : Turn(MaxHierarchySteps) /\ RemoveChild(p, c)
    \/ \E p \in alive : Turn(MaxHierarchySteps) /\ RemoveAllChildren(p)

SpecHierarchy == Init /\ [][NextHierarchy]_vars

(***************************************************************************)
(* What a client observes of one entity through the API.                   *)
(***************************************************************************)
View(w, e) ==
    [ exists |-> tecs_entity_exists(w, e),
      has |-> [c \in UserComponents |-> tecs_has(w, e, c)],
      get |-> [c \in DataComponents |-> tecs_get(w, e, c)] ]

(***************************************************************************)
(* The specifications with an application.  The client has created the     *)
(* application with tbevy_app_new; it declares systems through builders    *)
(* and calls tbevy_app_update.  While a system function runs the client    *)
(* acts from inside it, and the function returns at some point.            *)
(***************************************************************************)
InitApp ==
    /\ world = tecs_world_new
    /\ issued = {}
    /\ alive = {}
    /\ held = [h \in Handles |-> {}]
    /\ steps = 0
    /\ query = NoQuery
    /\ iter = NoIter
    /\ scan = NoScan
    /\ app = tbevy_app_new
    /\ run = Idle
    /\ obs = NoObs

Labels == { <<65>>, <<66>>, <<67>> }      \* "A", "B", "C"

\* the system that has declared the label, 0 if none has
Declared(label) ==
    IF \E k \in 1 .. Len(app.all_systems) : app.all_systems[k].label = label
    THEN CHOOSE k \in 1 .. Len(app.all_systems) : app.all_systems[k].label = label
    ELSE 0

AddSystem(max) ==
    /\ run.fn = "idle"
    /\ Len(app.all_systems) < max
    /\ app' = tbevy_app_add_system(app)
    /\ obs' = [obs EXCEPT !.builders = @ \cup {Len(app.all_systems) + 1}]
    /\ UNCHANGED <<world, run>>

SystemInStage(b, stage_id) ==
    /\ run.fn = "idle"
    /\ b \in obs.builders
    /\ app.all_systems[b].stage = 0
    /\ app' = tbevy_system_in_stage(app, b, tbevy_stage_default(app, stage_id))
    /\ UNCHANGED <<world, run, obs>>

\* the client gives every system at most one label, and no label twice
SystemLabel(b, label) ==
    /\ run.fn = "idle"
    /\ b \in obs.builders
    /\ app.all_systems[b].label = << >>
    /\ Declared(label) = 0
    /\ app' = tbevy_system_label(app, b, label)
    /\ UNCHANGED <<world, run, obs>>

SystemAfter(b, label) ==
    /\ run.fn = "idle"
    /\ b \in obs.builders
    /\ Len(app.all_systems[b].after_systems) + Len(app.all_systems[b].before_systems) < MaxConstraints
    /\ app' = tbevy_system_after(app, b, label)
    /\ obs' = IF Declared(label) # 0
              THEN [obs EXCEPT !.after = @ \cup {<<b, Declared(label)>>}]
              ELSE obs
    /\ UNCHANGED <<world, run>>

SystemBefore(b, label) ==
    /\ run.fn = "idle"
    /\ b \in obs.builders
    /\ Len(app.all_systems[b].after_systems) + Len(app.all_systems[b].before_systems) < MaxConstraints
    /\ app' = tbevy_system_before(app, b, label)
    /\ obs' = IF Declared(label) # 0
              THEN [obs EXCEPT !.before = @ \cup {<<b, Declared(label)>>}]
              ELSE obs
    /\ UNCHANGED <<world, run>>

SystemBuild(b) ==
    /\ run.fn = "idle"
    /\ b \in obs.builders
    /\ app' = tbevy_system_build(app, b)
    /\ obs' = [obs EXCEPT !.builders = @ \ {b}, !.built = @ \cup {b}]
    /\ UNCHANGED <<world, run>>

\* the inserts of data in the Commands buffer of the returning system that
\* are aimed at a live entity and that the OnInsert observer k selects
Selected(k) ==
    { n \in 1 .. Len(run.commands.commands) :
        /\ run.commands.commands[n].type = "TBEVY_CMD_INSERT"
        /\ run.commands.commands[n].data # NULL
        /\ run.commands.commands[n].entity_id \in alive
        /\ app.global_observers[k].trigger_type = TBEVY_TRIGGER_ON_INSERT
        /\ \/ app.global_observers[k].component_id = 0
           \/ app.global_observers[k].component_id = run.commands.commands[n].component_id }

\* the state a call of `fn` leaves behind when it calls the next system
\* function or returns
ResumeFrom(o, s, fn) ==
    /\ app' = s.app
    /\ world' = s.world
    /\ run' = s.run
    /\ obs' = LET begins == fn = "tbevy_app_update" /\ run.fn = "idle"
                  changes == o.queued # NULL /\ o.queued # o.state
              IN  [ o EXCEPT
                      !.log = IF s.run.system # 0
                              THEN Append(@, [ kind |-> "system", system |-> s.run.system,
                                               index |-> 0, result |-> TRUE,
                                               applied |-> FALSE ])
                              ELSE @,
                      !.frame = IF fn = "tbevy_app_update" /\ s.run.fn = "idle"
                                THEN @ + 1 ELSE @,
                      !.start_view = IF s.run.system # 0
                                     THEN [h \in Handles |-> View(s.world, h)]
                                     ELSE << >>,
                      !.start_tick = IF begins THEN tecs_world_tick(world) ELSE @,
                      !.expected =
                          IF begins
                          THEN IF changes
                               THEN { p[1] : p \in
                                        { q \in o.on_exit : q[2] = o.state /\ q[1] \in o.built }
                                        \cup
                                        { q \in o.on_enter : q[2] = o.queued /\ q[1] \in o.built } }
                               ELSE {}
                          ELSE @,
                      !.state = IF begins /\ changes THEN o.queued ELSE @,
                      !.queued = IF begins THEN NULL ELSE @,
                      !.history = IF s.run.system # 0 THEN Append(@, s.run.system) ELSE @,
                      !.startups = IF fn = "tbevy_app_run_startup" /\ s.run.fn = "idle"
                                   THEN @ + 1 ELSE @,
                      !.due = IF run.system # 0
                              THEN [ k \in 1 .. Len(app.global_observers) |->
                                       o.due[k] + Cardinality(Selected(k)) ]
                              ELSE @ ]

Resume(s, fn) == ResumeFrom(obs, s, fn)

AppUpdate(max) ==
    /\ run.fn = "idle"
    /\ obs.frame < max
    /\ \E s \in { tbevy_app_update([ app |-> app, world |-> world,
                                      run |-> [ run EXCEPT !.fn = "tbevy_app_update",
                                                           !.called = << >> ] ]) } :
           Resume(s, "tbevy_app_update")

AppRunStartup ==
    /\ run.fn = "idle"
    /\ ~app.startup_run
    /\ \E s \in { tbevy_app_run_startup([ app |-> app, world |-> world,
                                           run |-> [ run EXCEPT !.fn = "tbevy_app_run_startup",
                                                                !.called = << >> ] ]) } :
           Resume(s, "tbevy_app_run_startup")

SystemReturn ==
    /\ run.system # 0
    /\ \E r \in {tbevy_commands_apply(world, run.commands)} :
           \E s \in { AfterSystem([ app |-> app, world |-> r.w,
                                     run |-> [run EXCEPT !.commands = r.commands] ]) } :
               Resume(s, run.fn)

Stages == {TBEVY_STAGE_STARTUP, TBEVY_STAGE_UPDATE, TBEVY_STAGE_LAST}

NextSchedule ==
    \/ AddSystem(MaxSystems) /\ UNCHANGED corevars
    \/ \E b \in obs.builders, id \in Stages : SystemInStage(b, id) /\ UNCHANGED corevars
    \/ \E b \in obs.builders, l \in Labels : SystemLabel(b, l) /\ UNCHANGED corevars
    \/ \E b \in obs.builders, l \in Labels : SystemAfter(b, l) /\ UNCHANGED corevars
    \/ \E b \in obs.builders, l \in Labels : SystemBefore(b, l) /\ UNCHANGED corevars
    \/ \E b \in obs.builders : SystemBuild(b) /\ UNCHANGED corevars
    \/ AppRunStartup /\ UNCHANGED corevars
    \/ AppUpdate(MaxFrames) /\ UNCHANGED corevars
    \/ SystemReturn /\ UNCHANGED corevars

SpecSchedule == InitApp /\ [][NextSchedule]_vars

\* the archetypes of the heap that were not freed
LiveArchetypes(w) == { a \in 1 .. Len(w.archetypes) : ~w.archetypes[a].freed }

(***************************************************************************)
(* The specification with Commands: the client declares systems, and from  *)
(* inside a running system function it spawns entities through the         *)
(* Commands buffer of the system and queues inserts, removes and despawns  *)
(* for the entities it knows.                                              *)
(***************************************************************************)
CommandTurn ==
    /\ run.system # 0
    /\ steps < MaxCommandSteps
    /\ steps' = steps + 1
    /\ UNCHANGED <<query, iter, scan, app, obs>>

CommandsSpawn ==
    /\ CanSpawn
    /\ LET r == tbevy_commands_spawn(world, run.commands)
       IN  /\ world' = r.w
           /\ run' = [run EXCEPT !.commands = r.commands]
           /\ issued' = issued \cup {r.entity}
           /\ alive' = alive \cup {r.entity}
           /\ held' = [held EXCEPT ![r.entity] = {}]

\* the data of a tag is a null pointer of size 0
EntityInsert(e, c, v) ==
    /\ run' = [ run EXCEPT !.commands =
                  IF c \in DataComponents
                  THEN tbevy_entity_insert(@, e, c, v, SizeOf(c))
                  ELSE tbevy_entity_insert(@, e, c, NULL, 0) ]
    /\ UNCHANGED <<world, issued, alive, held>>

EntityRemove(e, c) ==
    /\ run' = [run EXCEPT !.commands = tbevy_entity_remove(@, e, c)]
    /\ UNCHANGED <<world, issued, alive, held>>

EntityDespawn(e) ==
    /\ run' = [run EXCEPT !.commands = tbevy_entity_despawn(@, e)]
    /\ UNCHANGED <<world, issued, alive, held>>

\* the entities and components a buffer names
Despawned(cmds) ==
    { cmds[n].entity_id : n \in { k \in 1 .. Len(cmds) : cmds[k].type = "TBEVY_CMD_DESPAWN" } }

RECURSIVE HeldAfter(_, _, _)
HeldAfter(h, cmds, i) ==
    IF i >= Len(cmds) THEN h
    ELSE LET cmd == cmds[i + 1]
         IN  HeldAfter(
                 IF cmd.type = "TBEVY_CMD_INSERT"
                 THEN [h EXCEPT ![cmd.entity_id] = @ \cup {cmd.component_id}]
                 ELSE IF cmd.type = "TBEVY_CMD_REMOVE"
                 THEN [h EXCEPT ![cmd.entity_id] = @ \ {cmd.component_id}]
                 ELSE h,
                 cmds, i + 1)

\* the system function returns; the client no longer counts the entities it
\* queued a despawn for as alive
SystemReturnApplied ==
    /\ SystemReturn
    /\ alive' = alive \ Despawned(run.commands.commands)
    /\ held' = HeldAfter(held, run.commands.commands, 0)
    /\ UNCHANGED <<issued, steps, query, iter, scan>>

NextCommands ==
    \/ AddSystem(MaxCommandSystems) /\ UNCHANGED corevars
    \/ \E b \in obs.builders : SystemBuild(b) /\ UNCHANGED corevars
    \/ AppUpdate(MaxCommandFrames) /\ UNCHANGED corevars
    \/ CommandTurn /\ CommandsSpawn
    \/ \E e \in alive, c \in DataComponents, v \in Values : CommandTurn /\ EntityInsert(e, c, v)
    \/ \E e \in alive, c \in UserComponents \ DataComponents : CommandTurn /\ EntityInsert(e, c, NULL)
    \/ \E e \in alive, c \in UserComponents : CommandTurn /\ EntityRemove(e, c)
    \/ \E e \in alive : CommandTurn /\ EntityDespawn(e)
    \/ SystemReturnApplied

SpecCommands == InitApp /\ [][NextCommands]_vars

(***************************************************************************)
(* The specification with events.  The client sends events and reads them, *)
(* between updates and inside system functions.                            *)
(***************************************************************************)
EventTypes == {1, 2}      \* DamageEvent_id, ScoreEvent_id

\* the payload of an event is its serial number, so that no two are alike
SendEvent(t) ==
    /\ Len(obs.sent) < MaxEvents
    /\ app' = tbevy_app_send_event(app, t, Len(obs.sent) + 1, 4)
    /\ obs' = [obs EXCEPT !.sent = Append(@, [type |-> t, frame |-> obs.frame])]
    /\ UNCHANGED <<world, run>>

\* the callback collects the events it is called with
ReadEvents(t) ==
    /\ obs' = [ obs EXCEPT !.last_read = [ type |-> t, frame |-> obs.frame,
                                           events |-> tbevy_app_read_events(app, t) ] ]
    /\ UNCHANGED <<app, world, run>>

NextEvents ==
    \/ AddSystem(MaxEventSystems) /\ UNCHANGED corevars
    \/ \E b \in obs.builders : SystemBuild(b) /\ UNCHANGED corevars
    \/ \E t \in EventTypes : SendEvent(t) /\ UNCHANGED corevars
    \/ \E t \in EventTypes : ReadEvents(t) /\ UNCHANGED corevars
    \/ AppUpdate(MaxEventFrames) /\ UNCHANGED corevars
    \/ SystemReturn /\ UNCHANGED corevars

SpecEvents == InitApp /\ [][NextEvents]_vars

(***************************************************************************)
(* The specification with states.  The client adds a state machine and     *)
(* systems for OnEnter and OnExit, and sets states between updates and     *)
(* inside system functions.                                                *)
(***************************************************************************)
StateType == 1            \* GameState_id
States == {0, 1}          \* GAME_STATE_MENU, GAME_STATE_PLAYING

AddState(initial) ==
    /\ run.fn = "idle"
    /\ tbevy_hashmap_get(app.state_machines, StateType) = 0
    /\ app' = tbevy_app_add_state(app, StateType, initial)
    /\ obs' = [obs EXCEPT !.state = initial]
    /\ UNCHANGED <<world, run>>

SetState(new_state) ==
    /\ tbevy_hashmap_get(app.state_machines, StateType) # 0
    /\ app' = tbevy_app_set_state(app, StateType, new_state)
    /\ obs' = [obs EXCEPT !.queued = new_state]
    /\ UNCHANGED <<world, run>>

AddSystemOnEnter(state_value) ==
    /\ run.fn = "idle"
    /\ Len(app.all_systems) < MaxStateSystems
    /\ app' = tbevy_app_add_system_on_enter(app, StateType, state_value)
    /\ obs' = [ obs EXCEPT !.builders = @ \cup {Len(app.all_systems) + 1},
                           !.on_enter = @ \cup {<<Len(app.all_systems) + 1, state_value>>} ]
    /\ UNCHANGED <<world, run>>

AddSystemOnExit(state_value) ==
    /\ run.fn = "idle"
    /\ Len(app.all_systems) < MaxStateSystems
    /\ app' = tbevy_app_add_system_on_exit(app, StateType, state_value)
    /\ obs' = [ obs EXCEPT !.builders = @ \cup {Len(app.all_systems) + 1},
                           !.on_exit = @ \cup {<<Len(app.all_systems) + 1, state_value>>} ]
    /\ UNCHANGED <<world, run>>

NextStates ==
    \/ \E v \in States : AddState(v) /\ UNCHANGED corevars
    \/ \E v \in States : SetState(v) /\ UNCHANGED corevars
    \/ \E v \in States : AddSystemOnEnter(v) /\ UNCHANGED corevars
    \/ \E v \in States : AddSystemOnExit(v) /\ UNCHANGED corevars
    \/ \E b \in obs.builders : SystemBuild(b) /\ UNCHANGED corevars
    \/ AppUpdate(MaxStateFrames) /\ UNCHANGED corevars
    \/ SystemReturn /\ UNCHANGED corevars

SpecStates == InitApp /\ [][NextStates]_vars

(***************************************************************************)
(* The specification with observers.  The client adds global observers     *)
(* between updates, spawns entities and queues inserts of data from inside *)
(* a system function, and triggers the Custom kind by hand.                *)
(***************************************************************************)
ObserverKinds == {TBEVY_TRIGGER_ON_INSERT, TBEVY_TRIGGER_CUSTOM}

AddObserver(trigger_type, component_id) ==
    /\ run.fn = "idle"
    /\ Len(app.global_observers) < MaxObservers
    /\ app' = tbevy_app_add_observer(app, trigger_type, component_id)
    /\ obs' = [obs EXCEPT !.due = Append(@, 0)]
    /\ UNCHANGED <<world, run>>

\* the callbacks record their calls
Trigger(e, c) ==
    /\ Len(obs.calls) < MaxTriggers
    /\ obs' = [ obs EXCEPT !.calls =
                   @ \o tbevy_app_trigger(app, [ type |-> TBEVY_TRIGGER_CUSTOM,
                                                 entity_id |-> e,
                                                 component_id |-> c,
                                                 component_data |-> NULL,
                                                 propagate |-> FALSE ]) ]
    /\ UNCHANGED <<world, app, run>>

ObserverTurn ==
    /\ run.system # 0
    /\ steps < MaxObserverSteps
    /\ steps' = steps + 1
    /\ UNCHANGED <<query, iter, scan, app, obs>>

NextObservers ==
    \/ AddSystem(MaxCommandSystems) /\ UNCHANGED corevars
    \/ \E b \in obs.builders : SystemBuild(b) /\ UNCHANGED corevars
    \/ \E t \in ObserverKinds, c \in DataComponents : AddObserver(t, c) /\ UNCHANGED corevars
    \/ \E e \in alive, c \in DataComponents : Trigger(e, c) /\ UNCHANGED corevars
    \/ AppUpdate(MaxObserverFrames) /\ UNCHANGED corevars
    \/ ObserverTurn /\ CommandsSpawn
    \/ \E e \in alive, c \in DataComponents, v \in Values : ObserverTurn /\ EntityInsert(e, c, v)
    \/ SystemReturnApplied

SpecObservers == InitApp /\ [][NextObservers]_vars

(***************************************************************************)
(* The specification with custom stages.  The client adds a custom stage,  *)
(* pins it after or before a default stage, puts systems into stages and   *)
(* updates.                                                                *)
(***************************************************************************)
PinTargets == {TBEVY_STAGE_FIRST, TBEVY_STAGE_UPDATE, TBEVY_STAGE_LAST}

CustomStages == { S \in 1 .. Len(app.stages) : app.stages[S].id = TBEVY_STAGE_CUSTOM }

Pinned == { p[1] : p \in obs.pinned_after \cup obs.pinned_before }

AddCustomStage ==
    /\ run.fn = "idle"
    /\ Cardinality(CustomStages) < MaxCustomStages
    /\ app' = tbevy_app_add_stage(app, tbevy_stage_custom("Physics"))
    /\ UNCHANGED <<world, run, obs>>

StageAfter(S, id) ==
    /\ run.fn = "idle"
    /\ obs.frame = 0
    /\ S \notin Pinned
    /\ app' = tbevy_stage_after(app, S, tbevy_stage_default(app, id))
    /\ obs' = [obs EXCEPT !.pinned_after = @ \cup {<<S, tbevy_stage_default(app, id)>>}]
    /\ UNCHANGED <<world, run>>

StageBefore(S, id) ==
    /\ run.fn = "idle"
    /\ obs.frame = 0
    /\ S \notin Pinned
    /\ app' = tbevy_stage_before(app, S, tbevy_stage_default(app, id))
    /\ obs' = [obs EXCEPT !.pinned_before = @ \cup {<<S, tbevy_stage_default(app, id)>>}]
    /\ UNCHANGED <<world, run>>

SystemInCustomStage(b, S) ==
    /\ run.fn = "idle"
    /\ b \in obs.builders
    /\ app.all_systems[b].stage = 0
    /\ app' = tbevy_system_in_stage(app, b, S)
    /\ UNCHANGED <<world, run, obs>>

NextStages ==
    \/ AddCustomStage /\ UNCHANGED corevars
    \/ \E S \in CustomStages, id \in PinTargets : StageAfter(S, id) /\ UNCHANGED corevars
    \/ \E S \in CustomStages, id \in PinTargets : StageBefore(S, id) /\ UNCHANGED corevars
    \/ AddSystem(MaxStageSystems) /\ UNCHANGED corevars
    \/ \E b \in obs.builders, id \in PinTargets : SystemInStage(b, id) /\ UNCHANGED corevars
    \/ \E b \in obs.builders, S \in CustomStages : SystemInCustomStage(b, S) /\ UNCHANGED corevars
    \/ \E b \in obs.builders : SystemBuild(b) /\ UNCHANGED corevars
    \/ AppUpdate(MaxStageFrames) /\ UNCHANGED corevars
    \/ SystemReturn /\ UNCHANGED corevars

SpecStages == InitApp /\ [][NextStages]_vars

(***************************************************************************)
(* The specification with start-up calls.  The client declares its systems *)
(* in the Startup and Update stages, and then calls tbevy_app_run_startup  *)
(* and tbevy_app_update in any order and number.                           *)
(***************************************************************************)
StartupCalls == obs.startups + obs.frame

Configuring == StartupCalls = 0 /\ run.fn = "idle"

RunStartup ==
    /\ run.fn = "idle"
    /\ StartupCalls < MaxStartupCalls
    /\ \E s \in { tbevy_app_run_startup([ app |-> app, world |-> world,
                                           run |-> [ run EXCEPT !.fn = "tbevy_app_run_startup",
                                                                !.called = << >> ] ]) } :
           Resume(s, "tbevy_app_run_startup")

NextStartup ==
    \/ Configuring /\ AddSystem(MaxStartupSystems) /\ UNCHANGED corevars
    \/ \E b \in obs.builders, id \in {TBEVY_STAGE_STARTUP, TBEVY_STAGE_UPDATE} :
           Configuring /\ SystemInStage(b, id) /\ UNCHANGED corevars
    \/ \E b \in obs.builders : Configuring /\ SystemBuild(b) /\ UNCHANGED corevars
    \/ RunStartup /\ UNCHANGED corevars
    \/ StartupCalls < MaxStartupCalls /\ AppUpdate(MaxStartupCalls) /\ UNCHANGED corevars
    \/ SystemReturn /\ UNCHANGED corevars

SpecStartup == InitApp /\ [][NextStartup]_vars

(***************************************************************************)
(* The specification with stale handles: the client also calls             *)
(* tecs_entity_delete, tecs_set, tecs_unset and tecs_mark_changed with the *)
(* handle of an entity it has despawned.                                   *)
(***************************************************************************)
\* the entity count, the recycle stack and the components of the live entities
Observed(w) ==
    [ stale |-> TRUE,
      entity_count |-> tecs_world_entity_count(w),
      recycled |-> w.entities.recycled,
      live |-> [e \in alive |-> View(w, e)] ]

StaleTurn(stale) ==
    /\ steps < MaxStaleSteps
    /\ ~world.fault
    /\ ~world.hang
    /\ steps' = steps + 1
    /\ obs' = [obs EXCEPT !.pre = IF stale THEN Observed(world) ELSE [stale |-> FALSE]]
    /\ UNCHANGED <<query, iter, scan, app, run>>

StaleDelete(e) ==
    /\ world' = tecs_entity_delete(world, e)
    /\ UNCHANGED <<issued, alive, held>>

StaleSet(e, c, v) ==
    /\ world' = tecs_set(world, e, c, v, SizeOf(c))
    /\ UNCHANGED <<issued, alive, held>>

StaleUnset(e, c) ==
    /\ world' = tecs_unset(world, e, c)
    /\ UNCHANGED <<issued, alive, held>>

StaleMarkChanged(e, c) ==
    /\ world' = tecs_mark_changed(world, e, c)
    /\ UNCHANGED <<issued, alive, held>>

NextStale ==
    \/ StaleTurn(FALSE) /\ EntityNew
    \/ \E e \in alive : StaleTurn(FALSE) /\ EntityDelete(e)
    \/ \E e \in alive, c \in DataComponents, v \in Values : StaleTurn(FALSE) /\ Set(e, c, v)
    \/ \E e \in issued \ alive : StaleTurn(TRUE) /\ StaleDelete(e)
    \/ \E e \in issued \ alive, c \in DataComponents, v \in Values :
           StaleTurn(TRUE) /\ StaleSet(e, c, v)
    \/ \E e \in issued \ alive, c \in DataComponents : StaleTurn(TRUE) /\ StaleUnset(e, c)
    \/ \E e \in issued \ alive, c \in DataComponents : StaleTurn(TRUE) /\ StaleMarkChanged(e, c)

SpecStale == Init /\ [][NextStale]_vars

(***************************************************************************)
(* The specification with tecs_world_clear: the client spawns and despawns *)
(* entities, sets components, advances the tick and clears the world; it   *)
(* forgets the entities it held when it clears.                            *)
(***************************************************************************)
ClearTurn(clears) ==
    /\ steps < MaxClearSteps
    /\ ~world.fault
    /\ ~world.hang
    /\ steps' = steps + 1
    /\ obs' = [obs EXCEPT !.cleared = clears]
    /\ UNCHANGED <<query, iter, scan, app, run>>

WorldUpdate ==
    /\ world' = tecs_world_update(world)
    /\ UNCHANGED <<issued, alive, held>>

WorldClear ==
    /\ world' = tecs_world_clear(world)
    /\ alive' = {}
    /\ held' = [h \in Handles |-> {}]
    /\ UNCHANGED issued

NextClear ==
    \/ ClearTurn(FALSE) /\ EntityNew
    \/ \E e \in alive : ClearTurn(FALSE) /\ EntityDelete(e)
    \/ \E e \in alive, c \in DataComponents, v \in Values : ClearTurn(FALSE) /\ Set(e, c, v)
    \/ ClearTurn(FALSE) /\ WorldUpdate
    \/ ClearTurn(TRUE) /\ WorldClear

SpecClear == Init /\ [][NextClear]_vars

(***************************************************************************)
(* The specification with change ticks: the client spawns and despawns     *)
(* entities, sets, unsets and marks components, and advances the tick; it  *)
(* notes the tick of its calls.                                            *)
(***************************************************************************)
TickTurn ==
    /\ steps < MaxTickSteps
    /\ ~world.fault
    /\ ~world.hang
    /\ steps' = steps + 1
    /\ UNCHANGED <<query, iter, scan, app, run>>

TickSet(e, c, v) ==
    /\ Set(e, c, v)
    /\ obs' = [obs EXCEPT !.ticks[e][c] =
                  [ changed |-> world.tick,
                    added |-> IF c \in held[e] THEN obs.ticks[e][c].added ELSE world.tick ]]

MarkChanged(e, c) ==
    /\ world' = tecs_mark_changed(world, e, c)
    /\ obs' = IF c \in held[e] THEN [obs EXCEPT !.ticks[e][c].changed = world.tick] ELSE obs
    /\ UNCHANGED <<issued, alive, held>>

NextTicks ==
    \/ TickTurn /\ EntityNew /\ UNCHANGED obs
    \/ \E e \in alive : TickTurn /\ EntityDelete(e) /\ UNCHANGED obs
    \/ \E e \in alive, c \in DataComponents : TickTurn /\ MarkChanged(e, c)
    \/ \E e \in alive, c \in DataComponents, v \in Values : TickTurn /\ TickSet(e, c, v)
    \/ \E e \in alive, c \in DataComponents : TickTurn /\ Unset(e, c) /\ UNCHANGED obs
    \/ TickTurn /\ WorldUpdate /\ UNCHANGED obs

SpecTicks == Init /\ [][NextTicks]_vars

(***************************************************************************)
(* The specification with a Changed query: the client sets and marks       *)
(* Position on entities, advances the tick, and iterates the query         *)
(* With(Position), Changed(Position) to the end.                           *)
(***************************************************************************)
ChangedShape == <<Term("WITH", PositionId), Term("CHANGED", PositionId)>>

ChangedTurn ==
    /\ steps < MaxChangedSteps
    /\ ~world.fault
    /\ ~world.hang
    /\ scan.phase # "running"
    /\ steps' = steps + 1
    /\ scan' = NoScan
    /\ UNCHANGED <<query, iter, app, run>>

NextChanged ==
    \/ ChangedTurn /\ EntityNew /\ UNCHANGED obs
    \/ \E e \in alive : ChangedTurn /\ MarkChanged(e, PositionId)
    \/ \E e \in alive, v \in Values : ChangedTurn /\ TickSet(e, PositionId, v)
    \/ ChangedTurn /\ WorldUpdate /\ UNCHANGED obs
    \/ QueryNew(ChangedShape)
    \/ QueryBuild
    \/ QueryIter
    \/ IterNext

SpecChanged == Init /\ [][NextChanged]_vars

(***************************************************************************)
(* The specification with tecs_entity_new_with_id: the client spawns and   *)
(* despawns entities and also spawns entities with a handle of its choice  *)
(* that no live entity has.                                                *)
(***************************************************************************)
WithIdTurn(called) ==
    /\ steps < MaxWithIdSteps
    /\ ~world.fault
    /\ ~world.hang
    /\ steps' = steps + 1
    /\ obs' = [obs EXCEPT !.with_id = called]
    /\ UNCHANGED <<query, iter, scan, app, run>>

EntityNewWithId(id) ==
    /\ CanSpawn
    /\ LET r == tecs_entity_new_with_id(world, id)
       IN  /\ world' = r.w
           /\ issued' = issued \cup {r.entity}
           /\ alive' = alive \cup {r.entity}
           /\ held' = [held EXCEPT ![r.entity] = {}]
           /\ WithIdTurn([called |-> TRUE, id |-> id, returned |-> r.entity])

NextWithId ==
    \/ WithIdTurn([called |-> FALSE]) /\ EntityNew
    \/ \E e \in alive : WithIdTurn([called |-> FALSE]) /\ EntityDelete(e)
    \/ \E e \in alive, c \in DataComponents, v \in Values :
           WithIdTurn([called |-> FALSE]) /\ Set(e, c, v)
    \/ \E id \in Handles \ alive : EntityNewWithId(id)

SpecWithId == Init /\ [][NextWithId]_vars

(***************************************************************************)
(* The specification with run conditions: the client attaches conditions   *)
(* to the systems it declares, one system at a time; a condition returns   *)
(* what it likes; a system function spawns entities and queues inserts.    *)
(***************************************************************************)
SystemRunIf(b) ==
    /\ run.fn = "idle"
    /\ b \in obs.builders
    /\ Len(app.all_systems[b].run_conditions) < MaxConditions
    /\ app' = tbevy_system_run_if(app, b, Len(app.all_systems[b].run_conditions) + 1)
    /\ UNCHANGED <<world, run, obs>>

\* the run condition returns: the application goes on to the next call of a
\* function of the client, or returns
ConditionReturn(result) ==
    /\ run.condition # 0
    /\ \E s \in { AfterCondition([app |-> app, world |-> world, run |-> run], result) } :
           ResumeFrom([ obs EXCEPT !.log = Append(@,
                          [ kind |-> "condition",
                            system |-> app.lists[run.sys_list][run.j + 1],
                            index |-> run.condition,
                            result |-> result,
                            applied |-> [s.world EXCEPT !.tick = world.tick] # world ]) ],
                      s, run.fn)

ConditionTurn ==
    /\ run.system # 0
    /\ steps < MaxConditionSteps
    /\ steps' = steps + 1
    /\ UNCHANGED <<query, iter, scan, app, obs>>

NextConditions ==
    \/ obs.builders = {} /\ AddSystem(MaxConditionSystems) /\ UNCHANGED corevars
    \/ \E b \in obs.builders : SystemRunIf(b) /\ UNCHANGED corevars
    \/ \E b \in obs.builders : SystemBuild(b) /\ UNCHANGED corevars
    \/ AppUpdate(MaxConditionFrames) /\ UNCHANGED corevars
    \/ \E result \in BOOLEAN : ConditionReturn(result) /\ UNCHANGED corevars
    \/ ConditionTurn /\ CommandsSpawn
    \/ \E e \in alive : ConditionTurn /\ EntityInsert(e, PositionId, 1)
    \/ SystemReturnApplied

SpecConditions == InitApp /\ [][NextConditions]_vars

(***************************************************************************)
(* The specification of the archetype table: the calls of the first        *)
(* specification, in behaviours long enough for an entity to pass through  *)
(* two archetypes whose hashes name the same slot of the table.            *)
(***************************************************************************)
NextTable ==
    \/ Turn(MaxTableSteps) /\ EntityNew
    \/ \E e \in alive : Turn(MaxTableSteps) /\ EntityDelete(e)
    \/ \E e \in alive, c \in DataComponents, v \in Values : Turn(MaxTableSteps) /\ Set(e, c, v)
    \/ \E e \in alive, c \in UserComponents \ DataComponents :
           Turn(MaxTableSteps) /\ AddTag(e, c)
    \/ \E e \in alive, c \in UserComponents : Turn(MaxTableSteps) /\ Unset(e, c)
    \/ Turn(MaxTableSteps) /\ RemoveEmptyArchetypes

SpecTable == Init /\ [][NextTable]_vars

(***************************************************************************)
(* The specification with graph edges: the client has MaxEdgeTags tag      *)
(* components, registered after those of the registry, and one entity; it  *)
(* tags the entity while it holds nothing, with a tag it used before or    *)
(* with the next new one, and removes the tag again, so that every         *)
(* transition leaves the root archetype.                                   *)
(***************************************************************************)
EdgeTags == (Len(component_registry) + 1) .. (Len(component_registry) + MaxEdgeTags)

\* the number of add edges that the root archetype has
RootAddEdges ==
    LET map == world.archetypes[world.root_archetype].add_edge_map
    IN  Cardinality({ i \in 0 .. (map.capacity - 1) : map.entries[i].occupied })

EdgeTurn ==
    /\ ~world.fault
    /\ ~world.hang
    /\ UNCHANGED <<steps, query, iter, scan, app, run, obs>>

NextEdges ==
    \/ alive = {} /\ EdgeTurn /\ EntityNew
    \/ \E e \in alive, c \in EdgeTags :
           /\ held[e] = {}
           /\ c <= Len(component_registry) + RootAddEdges + 1
           /\ EdgeTurn
           /\ AddTag(e, c)
    \/ \E e \in alive, c \in EdgeTags : c \in held[e] /\ EdgeTurn /\ Unset(e, c)

SpecEdges == Init /\ [][NextEdges]_vars

(***************************************************************************)
(* Properties.                                                             *)
(***************************************************************************)

\* C1 (invariant I2): in every chunk of every archetype, each row i below the
\* chunk's count holds a handle that resolves to a record naming this
\* archetype, this chunk, and a row with row % TECS_CHUNK_SIZE = i.
C1_RowsResolveToTheirRecord ==
    \A a \in LiveArchetypes(world) :
        \A k \in 1 .. Len(world.archetypes[a].chunks) :
            \A i \in Rows :
                i < world.archetypes[a].chunks[k].count =>
                    LET record == tecs_sparse_set_get(world.entities,
                                      world.archetypes[a].chunks[k].entities[i])
                    IN  /\ record # NULL
                        /\ world.entities.dense[record].archetype = a
                        /\ world.entities.dense[record].chunk_index = k - 1
                        /\ world.entities.dense[record].row % TECS_CHUNK_SIZE = i

\* C2 (B2): for every handle that was passed to tecs_entity_delete,
\* tecs_entity_exists is false, tecs_has is false for every component and
\* tecs_get is null for every component, in every later state.
C2_DeletedHandleStaysDead ==
    \A e \in issued \ alive :
        /\ ~tecs_entity_exists(world, e)
        /\ \A c \in UserComponents : ~tecs_has(world, e, c)
        /\ \A c \in DataComponents : tecs_get(world, e, c) = NULL

\* C3 (frame): tecs_entity_delete, tecs_set, tecs_add_tag and tecs_unset on a
\* live entity e leave what the client observes of every other live entity f
\* (exists, has, the bytes of get) as it was.
C3_OtherEntitiesUnchanged ==
    \A e \in alive : \A f \in alive \ {e} :
        /\ View(tecs_entity_delete(world, e), f) = View(world, f)
        /\ \A c \in UserComponents : View(tecs_unset(world, e, c), f) = View(world, f)
        /\ \A c \in DataComponents : \A v \in Values :
               View(tecs_set(world, e, c, v, SizeOf(c)), f) = View(world, f)
        /\ \A c \in UserComponents \ DataComponents :
               View(tecs_add_tag(world, e, c), f) = View(world, f)

\* C4 (I1): for a live entity e and a component C, tecs_has(e, C) is true
\* exactly when the most recent tecs_set / tecs_add_tag / tecs_unset of C on e
\* was a tecs_set or tecs_add_tag.
C4_HasFollowsLastCall ==
    \A e \in alive : \A c \in UserComponents :
        tecs_has(world, e, c) <=> c \in held[e]

\* C5 (R1): after tecs_set(e, C, v, size) on a live entity e, tecs_get(e, C)
\* is not null and its bytes are v, whether C was new on e or overwritten.
C5_GetAfterSet ==
    \A e \in alive : \A c \in DataComponents : \A v \in Values :
        tecs_get(tecs_set(world, e, c, v, SizeOf(c)), e, c) = v

\* the call that led from `world` to w2 touched no freed memory and left the
\* bytes of tecs_get(e, d) as they are in `world`
Kept(w2, e, d) ==
    /\ ~w2.fault
    /\ tecs_get(w2, e, d) = tecs_get(world, e, d)

\* C6 (frame): for a live entity e and a data component D that e holds
\* (native or custom storage), a tecs_set / tecs_add_tag of a component C that
\* is new on e, and a tecs_unset of another component C that e holds, run
\* without touching freed memory and leave the bytes tecs_get(e, D) returns
\* as they were.
C6_OtherComponentsKept ==
    \A e \in alive : \A d \in DataComponents \cap held[e] :
        /\ \A c \in held[e] \ {d} : Kept(tecs_unset(world, e, c), e, d)
        /\ \A c \in DataComponents \ held[e] : \A v \in Values :
               Kept(tecs_set(world, e, c, v, SizeOf(c)), e, d)
        /\ \A c \in (UserComponents \ DataComponents) \ held[e] :
               Kept(tecs_add_tag(world, e, c), e, d)

\* C7 (R2): for a live entity e and a data component C, tecs_set(e, C, v)
\* followed by tecs_unset(e, C) run without touching freed memory, and
\* afterwards tecs_has(e, C) is false and tecs_get(e, C) is null.
C7_UnsetAfterSet ==
    \A e \in alive : \A c \in DataComponents : \A v \in Values :
        LET w2 == tecs_unset(tecs_set(world, e, c, v, SizeOf(c)), e, c)
        IN  /\ ~w2.fault
            /\ ~tecs_has(w2, e, c)
            /\ tecs_get(w2, e, c) = NULL

\* the archetype the record of e points to
ArchetypeOf(w, e) ==
    w.archetypes[w.entities.dense[tecs_sparse_set_get(w.entities, e)].archetype]

\* the number of occupied slots of the archetype table that hold the hash
TableCount(w, hash) ==
    Cardinality({ i \in 0 .. (w.archetype_table_capacity - 1) :
                    /\ w.archetype_table[i].archetype # NULL_ARCH
                    /\ w.archetype_table[i].hash = hash })

\* C8 (R3): on a live entity e, tecs_set of C then D and tecs_set of D then C
\* both leave tecs_get(e, C) = v and tecs_get(e, D) = x, and leave e in an
\* archetype with the same component list and the same hash, which the
\* archetype table holds exactly once.
C8_SetOrderIrrelevant ==
    \A e \in alive : \A c \in DataComponents : \A d \in DataComponents \ {c} :
        \A v \in Values : \A x \in Values :
            LET wcd == tecs_set(tecs_set(world, e, c, v, SizeOf(c)), e, d, x, SizeOf(d))
                wdc == tecs_set(tecs_set(world, e, d, x, SizeOf(d)), e, c, v, SizeOf(c))
            IN  /\ tecs_get(wcd, e, c) = v
                /\ tecs_get(wcd, e, d) = x
                /\ tecs_get(wdc, e, c) = v
                /\ tecs_get(wdc, e, d) = x
                /\ IdsOf(ArchetypeOf(wcd, e).components) = IdsOf(ArchetypeOf(wdc, e).components)
                /\ ArchetypeOf(wcd, e).id = ArchetypeOf(wdc, e).id
                /\ TableCount(wcd, ArchetypeOf(wcd, e).id) = 1
                /\ TableCount(wdc, ArchetypeOf(wdc, e).id) = 1

\* a component set satisfies the terms: it holds every With / Changed / Added
\* component and no Without component
Satisfies(terms, comps) ==
    \A i \in 1 .. Len(terms) :
        /\ terms[i].type \in {"WITH", "CHANGED", "ADDED"} => terms[i].component_id \in comps
        /\ terms[i].type = "WITHOUT" => terms[i].component_id \notin comps

\* C9: an iteration of the query that ran to the end (tecs_iter_next returned
\* false) returned every non-empty chunk of every archetype satisfying the
\* terms exactly once, and the sum of tecs_iter_count over it is the number of
\* live entities whose components satisfy the terms.
C9_IterationCoversMatches ==
    scan.phase = "done" =>
        /\ \A i \in 1 .. Len(scan.visited) : \A j \in 1 .. Len(scan.visited) :
               i # j => scan.visited[i] # scan.visited[j]
        /\ { scan.visited[i] : i \in 1 .. Len(scan.visited) } =
               UNION { { <<a, k - 1>> : k \in { n \in 1 .. Len(world.archetypes[a].chunks) :
                                                 world.archetypes[a].chunks[n].count > 0 } } :
                       a \in { b \in LiveArchetypes(world) :
                                 Satisfies(query.terms,
                                           { world.archetypes[b].components[n].id :
                                               n \in 1 .. Len(world.archetypes[b].components) }) } }
        /\ scan.total = Cardinality({ e \in alive : Satisfies(query.terms, held[e]) })

\* C10 (I4): in every archetype every chunk but the last is full, and
\* tecs_entity_new puts the new handle in the first chunk that is not full.
C10_OnlyLastChunkPartial ==
    /\ \A a \in LiveArchetypes(world) :
           \A k \in 1 .. (Len(world.archetypes[a].chunks) - 1) :
               world.archetypes[a].chunks[k].count = TECS_CHUNK_SIZE
    /\ CanSpawn =>
           LET r == tecs_entity_new(world)
               before == world.archetypes[world.root_archetype].chunks
               after == r.w.archetypes[r.w.root_archetype].chunks
               k == IF FirstFreeChunk(before, 1) = 0 THEN Len(before) + 1
                    ELSE FirstFreeChunk(before, 1)
           IN  after[k].entities[after[k].count - 1] = r.entity

\* the entities reached from current by following Parent components
RECURSIVE AncestorsFrom(_, _, _)
AncestorsFrom(w, current, seen) ==
    LET parent == tecs_get(w, current, PARENT_ID)
    IN  IF parent = NULL THEN seen
        ELSE IF HandleOf(parent) \in seen THEN seen
        ELSE AncestorsFrom(w, HandleOf(parent), seen \cup {HandleOf(parent)})

AncestorsOf(w, e) == AncestorsFrom(w, e, {})

\* the number of side-table lists that hold c
ListsHolding(w, c) ==
    Cardinality({ i \in 1 .. Len(w.entity_children) :
                    IndexOfChild(w.entity_children[i].entities, c, 1) # 0 })

\* C11 (I7): the parent relation over live entities is a forest: no live
\* entity is its own ancestor and none is in the children list of two
\* parents; and tecs_add_child(p, c) on live entities with p = c or with c an
\* ancestor of p leaves the world as it is.
C11_ParentRelationIsForest ==
    /\ \A e \in alive : e \notin AncestorsOf(world, e)
    /\ \A e \in alive : ListsHolding(world, e) <= 1
    /\ \A p \in alive : \A c \in alive :
           (p = c \/ c \in AncestorsOf(world, p)) => tecs_add_child(world, p, c) = world

\* the number of times c occurs in the list tecs_get_children(p) returns
Occurrences(w, p, c) ==
    IF tecs_get_children(w, p) = 0 THEN 0
    ELSE Cardinality({ i \in 1 .. tecs_child_count(w, p) :
                         w.entity_children[tecs_get_children(w, p)].entities[i] = c })

\* C12 (I6): for all entities p and c ever spawned, tecs_get(c, Parent) names
\* p exactly when the list tecs_get_children(p) returns holds c, and then the
\* list holds c exactly once.
C12_ParentAndChildrenAgree ==
    \A p \in issued : \A c \in issued :
        LET parent == tecs_get(world, c, PARENT_ID)
            holds == parent # NULL /\ parent = HandleBits(p)
        IN  /\ holds <=> Occurrences(world, p, c) > 0
            /\ Occurrences(world, p, c) <= 1

\* the systems that the declared constraints require to run before it
RECURSIVE MustPrecedeFrom(_, _)
MustPrecedeFrom(frontier, seen) ==
    LET edges == obs.before \cup { <<p[2], p[1]>> : p \in obs.after }
        more == { p[1] : p \in { q \in edges : q[2] \in frontier } } \ seen
    IN  IF more = {} THEN seen ELSE MustPrecedeFrom(more, seen \cup more)

MustPrecede(k) == MustPrecedeFrom({k}, {})

\* the systems tbevy_run_stage_systems called before the running one
RanEarlier == { run.ran[n] : n \in 1 .. (Len(run.ran) - 1) }

SameStage(X, Y) ==
    /\ X \in obs.built /\ Y \in obs.built
    /\ app.all_systems[X].stage = run.stage
    /\ app.all_systems[Y].stage = run.stage

\* C13: whenever a stage executes, a system Y of the stage that was declared
\* tbevy_system_after the declared label of a system X of the same stage runs
\* after X: when the function of Y is called, the function of X was called
\* earlier in this execution of the stage (the constraints being acyclic).
C13_AfterOrdersSystems ==
    \A p \in obs.after :
        LET Y == p[1]
            X == p[2]
        IN  (run.system = Y /\ X # Y /\ SameStage(X, Y) /\ Y \notin MustPrecede(X))
                => X \in RanEarlier

\* C14: whenever a stage executes, a system X of the stage that was declared
\* tbevy_system_before the declared label of a system Y of the same stage runs
\* before Y: when the function of Y is called, the function of X was called
\* earlier in this execution of the stage (the constraints being acyclic).
C14_BeforeOrdersSystems ==
    \A p \in obs.before :
        LET X == p[1]
            Y == p[2]
        IN  (run.system = Y /\ X # Y /\ SameStage(X, Y) /\ Y \notin MustPrecede(X))
                => X \in RanEarlier

\* the direct operations in the order of the entries
RECURSIVE Replay(_, _, _)
Replay(w, cmds, i) ==
    IF i >= Len(cmds) THEN w
    ELSE LET cmd == cmds[i + 1]
         IN  Replay(IF cmd.type = "TBEVY_CMD_INSERT"
                    THEN tecs_set(w, cmd.entity_id, cmd.component_id, cmd.data, cmd.data_size)
                    ELSE IF cmd.type = "TBEVY_CMD_REMOVE"
                    THEN tecs_unset(w, cmd.entity_id, cmd.component_id)
                    ELSE tecs_entity_delete(w, cmd.entity_id),
                    cmds, i + 1)

Spawned == { run.commands.spawned_entities[n] : n \in 1 .. Len(run.commands.spawned_entities) }

\* the components the buffer inserts on e, and whether it only inserts on e
Inserted(e) ==
    { run.commands.commands[n].component_id :
        n \in { k \in 1 .. Len(run.commands.commands) :
                  /\ run.commands.commands[k].entity_id = e
                  /\ run.commands.commands[k].type = "TBEVY_CMD_INSERT" } }

OnlyInserts(e) ==
    \A n \in 1 .. Len(run.commands.commands) :
        run.commands.commands[n].entity_id = e
            => run.commands.commands[n].type = "TBEVY_CMD_INSERT"

\* C15: while a system function runs, the commands it queued have had no
\* effect: every entity looks as it did when the function was called, and an
\* entity spawned through the buffer exists and holds no component.  When the
\* function returns the buffer is applied: a spawned entity for which only
\* inserts were queued then holds exactly the inserted components, in the one
\* archetype its record points to.
C15_CommandsAreDeferred ==
    run.system # 0 =>
        /\ \A e \in issued \ Spawned : View(world, e) = obs.start_view[e]
        /\ \A e \in Spawned :
               /\ tecs_entity_exists(world, e)
               /\ \A c \in UserComponents : ~tecs_has(world, e, c)
        /\ LET w2 == tbevy_commands_apply(world, run.commands).w
           IN  \A e \in Spawned :
                   OnlyInserts(e) =>
                       /\ tecs_entity_exists(w2, e)
                       /\ { ArchetypeOf(w2, e).components[n].id :
                               n \in 1 .. Len(ArchetypeOf(w2, e).components) } = Inserted(e)

\* C16: tbevy_commands_apply leaves the world that the direct operations
\* tecs_set, tecs_unset and tecs_entity_delete leave when they are called in
\* the order of the entries (an insert of a tag being tecs_set with size 0);
\* afterwards the buffer is empty and a second apply changes nothing.
C16_ApplyEqualsReplay ==
    run.system # 0 =>
        LET r == tbevy_commands_apply(world, run.commands)
        IN  /\ r.w = Replay(world, run.commands.commands, 0)
            /\ r.commands.commands = << >>
            /\ tbevy_commands_apply(r.w, r.commands).w = r.w

\* the serial numbers of the events of type t sent in frame f, in the order
\* they were sent, from the n-th event sent on
RECURSIVE SentFrom(_, _, _)
SentFrom(t, f, n) ==
    IF n > Len(obs.sent) THEN << >>
    ELSE (IF obs.sent[n].type = t /\ obs.sent[n].frame = f THEN <<n>> ELSE << >>)
         \o SentFrom(t, f, n + 1)

\* C17: an event is delivered exactly in the frame after the one it was sent
\* in.  In every state, a call of tbevy_app_read_events for a type delivers
\* the events of that type sent between the previous two buffer swaps, each
\* once and in the order sent, and nothing else; so did the latest call the
\* client made.
C17_EventsLiveOneFrame ==
    /\ \A t \in EventTypes :
           tbevy_app_read_events(app, t) = SentFrom(t, obs.frame - 1, 1)
    /\ obs.last_read.type # 0 =>
           obs.last_read.events = SentFrom(obs.last_read.type, obs.last_read.frame - 1, 1)

\* a read delivered an event, and the buffers have been swapped again since
C17_EventWasDelivered ==
    /\ obs.last_read.type # 0
    /\ obs.last_read.events # << >>
    /\ obs.frame = obs.last_read.frame + 1
    /\ run.fn = "idle"

\* C18 as stated: each update advances the world tick by exactly one, after
\* all stages have run (the tick is the old one while a system function
\* runs) and before the event buffers are swapped (at the swap the tick is
\* already the new one).
C18_TickAdvancesBeforeSwap ==
    /\ run.system # 0 => tecs_world_tick(world) = obs.start_tick
    /\ (run.fn = "idle" /\ obs.frame > 0) =>
           /\ tecs_world_tick(world) = obs.start_tick + 1
           /\ run.swap_tick = obs.start_tick + 1

\* C18 amended: each update advances the world tick by exactly one, after
\* all stages have run and after the event buffers are swapped (at the swap
\* the tick is still the old one).
C18_TickAdvancesAfterSwap ==
    /\ run.system # 0 => tecs_world_tick(world) = obs.start_tick
    /\ (run.fn = "idle" /\ obs.frame > 0) =>
           /\ tecs_world_tick(world) = obs.start_tick + 1
           /\ run.swap_tick = obs.start_tick

\* an update that called a system function has returned
C18_UpdateWithSystemReturned ==
    /\ run.fn = "idle"
    /\ obs.frame > 0
    /\ run.called # << >>
    /\ tecs_world_tick(world) = obs.start_tick + 1

\* C19: tbevy_app_get_state returns the state the machine was added with
\* until an update begins after a tbevy_app_set_state with a different
\* state, and the state set from the moment that update begins.
C19_StateChangesAtNextUpdate ==
    tbevy_hashmap_get(app.state_machines, StateType) # 0 =>
        tbevy_app_get_state(app, StateType) = obs.state

\* the position of a system in the calls of the current update, 0 if none
CalledAt(x) ==
    IF \E n \in 1 .. Len(run.called) : run.called[n] = x
    THEN CHOOSE n \in 1 .. Len(run.called) : run.called[n] = x
    ELSE 0

StateSystems == { p[1] : p \in obs.on_enter \cup obs.on_exit }

\* C20: an OnEnter or OnExit system is called during an update only if the
\* update performs the transition into (out of) its state; when such an
\* update has returned, every such system built before it has been called,
\* the OnExit systems before the OnEnter systems.
C20_StateSystemsRunOnTransition ==
    /\ run.system \in StateSystems => run.system \in obs.expected
    /\ (run.fn = "idle" /\ obs.frame > 0) =>
           /\ \A x \in obs.expected : CalledAt(x) # 0
           /\ \A x \in obs.expected, e \in obs.expected :
                  (x \in { p[1] : p \in obs.on_exit } /\ e \in { p[1] : p \in obs.on_enter })
                      => CalledAt(x) < CalledAt(e)

\* the calls of the callback of observer k
CallsOf(k) == { n \in 1 .. Len(obs.calls) : obs.calls[n].observer = k }

\* C21: a global observer added for OnInsert and a component is called once
\* for every insert of that component applied to the world, and the calls for
\* the inserts of a Commands buffer are made by the time its
\* begin_deferred/end_deferred bracket has ended
C21_ObserverCalledPerInsert ==
    \A k \in 1 .. Len(app.global_observers) :
        app.global_observers[k].trigger_type = TBEVY_TRIGGER_ON_INSERT
            => Cardinality(CallsOf(k)) = obs.due[k]

\* the stage of app.stages that follows the default stage X among the
\* default stages, 0 for the last one
FollowerOf(X) ==
    IF app.stages[X].id >= TBEVY_STAGE_LAST THEN 0
    ELSE tbevy_stage_default(app, app.stages[X].id + 1)

\* stage A has to execute before stage B
StageBeforeStage(A, B) ==
    \/ /\ app.stages[A].id < TBEVY_STAGE_CUSTOM
       /\ app.stages[B].id < TBEVY_STAGE_CUSTOM
       /\ app.stages[A].id < app.stages[B].id
    \/ <<B, A>> \in obs.pinned_after
    \/ \E X \in 1 .. Len(app.stages) : <<A, X>> \in obs.pinned_after /\ B = FollowerOf(X)
    \/ <<A, B>> \in obs.pinned_before

\* C22: within an update the systems of the stages other than Startup are
\* called in stage order: a system of a stage that has to execute later, by
\* the order of the default stages or by tbevy_stage_after/tbevy_stage_before,
\* is never called before a system of a stage that has to execute earlier
C22_StagesRunInOrder ==
    run.fn = "tbevy_app_update" =>
        \A m \in 1 .. Len(run.called), n \in 1 .. Len(run.called) :
            LET A == app.all_systems[run.called[m]].stage
                B == app.all_systems[run.called[n]].stage
            IN  (/\ m < n
                 /\ app.stages[A].id # TBEVY_STAGE_STARTUP
                 /\ app.stages[B].id # TBEVY_STAGE_STARTUP)
                    => ~StageBeforeStage(B, A)

\* the built systems of the Startup stage
StartupSystems ==
    { k \in obs.built : app.stages[app.all_systems[k].stage].id = TBEVY_STAGE_STARTUP }

\* the positions of system k in the history of calls
CallsOfSystem(k) == { n \in 1 .. Len(obs.history) : obs.history[n] = k }

C24_StaleMutationIsNoOp ==
    obs.pre.stale => Observed(world) = obs.pre

\* C25: tecs_entity_exists is false for every handle that tecs_entity_new
\* has not returned in this world, with its index inside the entity table or
\* outside it (index MaxIndex)
C25_UnknownHandleDoesNotExist ==
    \A h \in (Handles \cup {TECS_ENTITY_MAKE(MaxIndex, 0)}) \ issued :
        ~tecs_entity_exists(world, h)

\* C26: tecs_set with a component id that was never registered is a no-op:
\* afterwards tecs_has is false and tecs_get null for that id, and the
\* archetype of the entity and the archetypes of the world are as before
C26_UnregisteredSetIsNoOp ==
    \A e \in alive, v \in Values :
        LET w2 == tecs_set(world, e, UnregisteredId, v, SizeOf(PositionId))
        IN  ~world.fault =>
                /\ ~tecs_has(w2, e, UnregisteredId)
                /\ tecs_get(w2, e, UnregisteredId) = NULL
                /\ ArchetypeOf(w2, e) = ArchetypeOf(world, e)
                /\ LiveArchetypes(w2) = LiveArchetypes(world)

\* C27: tecs_entity_new never returns TECS_ENTITY_NULL, so the handle that
\* tecs_get_parent returns for "no parent" is the handle of no entity
C27_NullHandleIsNeverIssued == TECS_ENTITY_NULL \notin issued

\* C28 (B3): after tecs_world_clear, from whatever state, the entity count is
\* 0 and the tick is 0, and a tecs_entity_new that follows succeeds and
\* returns a handle for which tecs_entity_exists is true
C28_ClearThenSpawn ==
    obs.cleared =>
        /\ tecs_world_entity_count(world) = 0
        /\ tecs_world_tick(world) = 0
        /\ LET r == tecs_entity_new(world)
           IN  ~r.w.fault /\ tecs_entity_exists(r.w, r.entity)

\* the reparenting of c under p2 is stated for: c and p2 live and different,
\* c with a live parent other than p2, and c not an ancestor of p2
Reparents(w, p2, c) ==
    /\ p2 # c
    /\ tecs_has_parent(w, c)
    /\ tecs_get_parent(w, c) \in alive \ {p2}
    /\ c \notin AncestorsOf(w, p2)

\* C29 (R3): tecs_add_child(p2, c) on a child c whose parent is p1 # p2, and
\* that creates no cycle, makes p2 the parent of c, puts c exactly once in the
\* children list of p2, takes c out of the children list of p1, and p1 loses
\* its Children component if it has no child left
C29_ReparentMovesChild ==
    \A p2 \in alive : \A c \in alive :
        Reparents(world, p2, c) =>
            LET p1 == tecs_get_parent(world, c)
                after == tecs_add_child(world, p2, c)
            IN  /\ ~after.fault
                /\ tecs_get_parent(after, c) = p2
                /\ Occurrences(after, p2, c) = 1
                /\ Occurrences(after, p1, c) = 0
                /\ tecs_child_count(after, p1) = 0 => ~tecs_has(after, p1, CHILDREN_ID)

\* what the hierarchy functions answer about the live entities
ChildrenList(w, e) ==
    IF tecs_get_children(w, e) = 0 THEN << >>
    ELSE w.entity_children[tecs_get_children(w, e)].entities

HierarchyOf(w) ==
    [ e \in alive |->
        [ parent |-> tecs_get_parent(w, e),
          children |-> ChildrenList(w, e),
          has_parent |-> tecs_has(w, e, PARENT_ID),
          has_children |-> tecs_has(w, e, CHILDREN_ID) ] ]

\* C30 (R4): for all live entities p and c, tecs_add_child(p, c) followed by
\* tecs_remove_child(p, c) leaves every entity with the parent, the children
\* list and the presence of the Parent and Children components it had before
C30_AddThenRemoveChildRestores ==
    \A p \in alive : \A c \in alive :
        HierarchyOf(tecs_remove_child(tecs_add_child(world, p, c), p, c)) = HierarchyOf(world)

\* the rows of the live archetypes: archetype, chunk (from 1) and row
LiveRows(w) ==
    { r \in LiveArchetypes(w) \X (1 .. MaxIndex) \X Rows :
        /\ r[2] <= Len(w.archetypes[r[1]].chunks)
        /\ r[3] < w.archetypes[r[1]].chunks[r[2]].count }

\* C31: for every live entity e and data component C on e, the changed tick
\* of the row of e in the column of C is the world tick at the latest
\* tecs_set(e, C) or tecs_mark_changed(e, C), and the added tick is the world
\* tick at which C was last added to e, whatever happened to other components
\* and other entities since
C31_TicksFollowEntity ==
    \A r \in LiveRows(world) :
        LET A == world.archetypes[r[1]]
            chunk == A.chunks[r[2]]
            e == chunk.entities[r[3]]
        IN  e \in alive =>
                \A i \in 1 .. Len(A.data_components) :
                    A.data_components[i].id \in held[e] =>
                        /\ chunk.columns[i].changed_ticks[r[3]]
                               = obs.ticks[e][A.data_components[i].id].changed
                        /\ chunk.columns[i].added_ticks[r[3]]
                               = obs.ticks[e][A.data_components[i].id].added

\* the live entities whose Position the client set or marked in the current tick
ChangedNow ==
    { e \in alive : PositionId \in held[e]
                    /\ obs.ticks[e][PositionId].changed = tecs_world_tick(world) }

\* C32: the iteration of a query With(C), Changed(C) yields the entities whose
\* C was changed in the current world tick: the sum of tecs_iter_count over
\* the iteration is the number of these entities
C32_ChangedQueryCountsChanged ==
    scan.phase = "done" => scan.total = Cardinality(ChangedNow)

\* C33: during iteration tecs_iter_column(iter, i) returns a non-null pointer
\* for every data column i of the current archetype, also for a column whose
\* component was registered with a custom storage provider
C33_IterColumnIsNotNull ==
    (scan.phase = "running" /\ Len(scan.visited) > 0) =>
        \A i \in 0 .. Len(world.archetypes[iter.current_archetype].data_components) - 1 :
            ~tecs_iter_column(world, iter, i).null

\* C34: tecs_entity_new_with_id(world, id) returns id, and
\* tecs_entity_exists(world, id) is true afterwards
C34_NewWithIdCreatesThatHandle ==
    obs.with_id.called =>
        /\ obs.with_id.returned = obs.with_id.id
        /\ tecs_entity_exists(world, obs.with_id.id)

\* the number of run conditions of a system
ConditionCount(k) == Len(app.all_systems[k].run_conditions)

\* C35: when a stage executes, the function of a system is called if and only
\* if all its run conditions return true; the conditions are evaluated in the
\* order they were attached, the evaluation stops at the first that returns
\* false, and nothing is applied to the world for a skipped system
C35_RunConditionsGateSystems ==
    \A n \in 1 .. Len(obs.log) :
        LET ev == obs.log[n]
            m == ConditionCount(ev.system)
        IN  IF ev.kind = "system"
            THEN \* every condition of the system has just returned true, in order
                 /\ n > m
                 /\ \A k \in 1 .. m :
                        /\ obs.log[n - m + k - 1].kind = "condition"
                        /\ obs.log[n - m + k - 1].system = ev.system
                        /\ obs.log[n - m + k - 1].index = k
                        /\ obs.log[n - m + k - 1].result
            ELSE /\ ev.index > 1 =>
                        /\ n > 1
                        /\ obs.log[n - 1] = [ kind |-> "condition", system |-> ev.system,
                                              index |-> ev.index - 1, result |-> TRUE,
                                              applied |-> FALSE ]
                 /\ ~ev.applied
                 \* after false the system is left; after the last true it is called
                 /\ (~ev.result /\ n < Len(obs.log)) =>
                        \/ obs.log[n + 1].system # ev.system
                        \/ obs.log[n + 1].kind = "condition" /\ obs.log[n + 1].index = 1
                 /\ (ev.result /\ ev.index = m) =>
                        /\ n < Len(obs.log)
                        /\ obs.log[n + 1].kind = "system"
                        /\ obs.log[n + 1].system = ev.system
                 /\ (ev.result /\ ev.index < m) =>
                        IF n < Len(obs.log)
                        THEN /\ obs.log[n + 1].kind = "condition"
                             /\ obs.log[n + 1].system = ev.system
                             /\ obs.log[n + 1].index = ev.index + 1
                        ELSE run.condition = ev.index + 1

\* a system with two run conditions was skipped after its first condition
\* returned false, and in a later update it was called after both returned true
C35_SkippedThenCalled ==
    \E n \in 1 .. Len(obs.log) : \E k \in (n + 1) .. Len(obs.log) :
        /\ obs.log[n].kind = "condition" /\ ~obs.log[n].result /\ obs.log[n].index = 1
        /\ ConditionCount(obs.log[n].system) = 2
        /\ obs.log[k].kind = "system" /\ obs.log[k].system = obs.log[n].system

\* the systems built into the stage that is executing
StageMembers == { k \in obs.built : app.all_systems[k].stage = run.stage }

\* the members that the constraints among the members require to run before
\* the systems of `frontier'
RECURSIVE PrecedeWithin(_, _)
PrecedeWithin(frontier, seen) ==
    LET edges == { p \in obs.before \cup { <<q[2], q[1]>> : q \in obs.after } :
                     p[1] \in StageMembers /\ p[2] \in StageMembers }
        more == { p[1] : p \in { q \in edges : q[2] \in frontier } } \ seen
    IN  IF more = {} THEN seen ELSE PrecedeWithin(more, seen \cup more)

\* the before/after declarations of the systems of the executing stage form a cycle
StageHasCycle == \E k \in StageMembers : k \in PrecedeWithin({k}, {})

\* C36: if the before/after declarations of the systems of a stage form a
\* cycle, the execution of the stage calls every system of the stage exactly
\* once: whenever a system function of such a stage is called, the sorted list
\* holds every system of the stage once and the systems called so far in this
\* execution are the list up to the running system
C36_CycleRunsEverySystemOnce ==
    (run.system # 0 /\ StageHasCycle) =>
        LET list == app.lists[run.sys_list]
        IN  /\ \A k \in StageMembers :
                   Cardinality({ n \in 1 .. Len(list) : list[n] = k }) = 1
            /\ run.ran = SubSeq(list, 1, run.j + 1)

\* the last of two systems of a stage whose declarations form a cycle is called
C36_CycleStageExecuted ==
    /\ run.system # 0
    /\ StageHasCycle
    /\ Cardinality(StageMembers) = 2
    /\ Len(run.ran) = 2

\* the systems built into the stage that app.stages holds at st
BuiltInto(st) == { k \in obs.built : app.all_systems[k].stage = st }

\* C37: in every update each system built into a non-Startup stage is called
\* once and only while its own stage executes, also when a before/after label
\* of a system in another stage names it, and the update leaves the membership
\* of every stage's system list as it was: when every system is built and
\* none into Startup, a system function that is called belongs to the stage
\* that executes, no system is called twice in one update, and the list of
\* every stage holds the systems built into it
C37_SystemsRunOnceInOwnStage ==
    (obs.builders = {} /\ BuiltInto(tbevy_stage_default(app, TBEVY_STAGE_STARTUP)) = {}) =>
    /\ run.system # 0 => app.all_systems[run.system].stage = run.stage
    /\ \A m, n \in 1 .. Len(run.called) : run.called[m] = run.called[n] => m = n
    /\ \A st \in 1 .. Len(app.stages) :
           LET sys_list == tbevy_hashmap_get(app.stage_systems, st)
               list == IF sys_list = 0 THEN << >> ELSE app.lists[sys_list]
           IN  { list[n] : n \in 1 .. Len(list) } = BuiltInto(st)

\* the archetypes that the slots of the world's table hold
InTable(w) ==
    { w.archetype_table[i].archetype : i \in 0 .. (w.archetype_table_capacity - 1) }
        \ {NULL_ARCH}

\* C38: every add-edge and remove-edge target cached in an archetype of the
\* world's table, the root archetype included, is an archetype of the table
\* that was not destroyed, also after tecs_remove_empty_archetypes and
\* tecs_world_clear
C38_EdgeTargetsStayInTable ==
    \A a \in InTable(world) : \A c \in EdgeKeys : \A is_add \in BOOLEAN :
        LET target == tecs_archetype_find_edge(world.archetypes[a], c, is_add)
        IN  target # NULL_ARCH =>
                /\ target \in InTable(world)
                /\ ~world.archetypes[target].freed

\* C39: the world's table holds at most one archetype per component set, and
\* tecs_world_find_archetype finds every archetype of the table by its hash,
\* also after tecs_remove_empty_archetypes emptied slots and after the table
\* was rehashed
C39_TableFindsEveryArchetype ==
    /\ \A a \in InTable(world) :
           tecs_world_find_archetype(world, world.archetypes[a].id) = a
    /\ \A i, k \in 0 .. (world.archetype_table_capacity - 1) :
           LET a == world.archetype_table[i].archetype
               b == world.archetype_table[k].archetype
           IN  (/\ a # NULL_ARCH
                /\ b # NULL_ARCH
                /\ IdsOf(world.archetypes[a].components) = IdsOf(world.archetypes[b].components))
               => i = k

\* C40: tecs_set and tecs_unset return for every input, also when the
\* archetype on which they record a new edge already has an edge for as many
\* distinct components as its edge map has slots
C40_SetAndUnsetTerminate == ~world.hang

====
